---- MODULE Spec2Model ----
(***************************************************************************)
(* The adaptive column-width layout engine of pda's list command           *)
(* (requireColumns, updateMaxContentWidths, applyColumnConstraints,        *)
(* contentWidthForStyle, tableRowOverhead, maxSeparatorWidth,              *)
(* detectTerminalWidth, distributeWidths, basePercentageForColumn).        *)
(*                                                                         *)
(* Strings are sequences of glyph tokens; a token is an escape sequence    *)
(* ("ESC", no columns), a wide rune ("W", two columns) or any other rune   *)
(* (one column).  Go's float64 weights 0.25, 0.5, 0.75 are kept as         *)
(* hundredths: int((base/sum)*float64(total)) equals (base*total) \div sum *)
(* for every weight pair the code can form (compared value by value for    *)
(* totals up to 2,000,000).                                                *)
(***************************************************************************)
EXTENDS Integers, Sequences, FiniteSets, TLC

VARIABLES
    pc,                 \* position of the run
    probe,              \* what the terminal queries and COLUMNS answer
    style,              \* the table writer's style
    columns,            \* ColumnSet (columnKinds)
    maxContentWidths,   \* ContentWidths
    totalWidth,         \* applyColumnConstraints: totalWidth
    contentWidth,       \* applyColumnConstraints: contentWidth
    initial,            \* widths as returned by distributeWidths
    clamped,            \* widths after the clamp loop (lines 84-96)
    widths,             \* the WidthPlan
    remaining,          \* applyColumnConstraints: remaining
    configs,            \* argument of tw.SetColumnConfigs
    allowedRowLength,   \* argument of tw.SetAllowedRowLength
    overhead,           \* result of tableRowOverhead
    cmd,                \* list: the command line (DB argument and flag values)
    flags,              \* list: ListArgs returned by parseFlags
    targetDB,           \* list: targetDB
    txn,                \* Store.Transaction: database handle, transaction, result
    store,              \* the snapshot the iterator walks, in key order
    cursor,             \* the iterator's position in the snapshot
    tw,                 \* the table writer: header and rows appended so far
    rendered,           \* render methods called on the table writer
    calls,              \* calls of applyColumnConstraints and updateMaxContentWidths
    ret,                \* what the command returned
    trans,              \* Store.Transaction: the TransactionArgs it was called with
    dbName,             \* restore: dbName
    input,              \* restore: the lines of the NDJSON input
    lineNo,             \* restore: lineNo
    restored,           \* restore: restored
    wb,                 \* restore: the write batch
    stderr,             \* restore: messages printed to standard error
    out                 \* dump: lines printed to standard output

listVars == <<cmd, flags, targetDB, txn, store, cursor, tw, rendered, calls, ret>>

ioVars == <<trans, dbName, input, lineNo, restored, wb, stderr, out>>

vars == <<pc, probe, style, columns, maxContentWidths, totalWidth, contentWidth,
          initial, clamped, widths, remaining, configs, allowedRowLength, overhead,
          listVars, ioVars>>

(***************************************************************************)
(* Bounds                                                                  *)
(***************************************************************************)
MaxTotalWidth == 107

MaxCap == 120

CapValues == {0, 1, 9, 10, 11, 25, 40, MaxCap}

MaxLoopWidth == 36

LoopCapValues == {0, 1, 9, 11, MaxCap}

MaxProbeWidth == 132

ProbeWidths == {0, 40, 100, MaxProbeWidth}

ProbeCapValues == {0, 11}

MaxOverheadWidth == 6

MaxListWidth == 60

MaxRows == 2

MaxLines == 3

(***************************************************************************)
(* Helpers                                                                 *)
(***************************************************************************)
Max(a, b) == IF a >= b THEN a ELSE b

RECURSIVE SumSeq(_)
SumSeq(s) == IF s = <<>> THEN 0 ELSE Head(s) + SumSeq(Tail(s))

(***************************************************************************)
(* Column kinds and requireColumns                                         *)
(***************************************************************************)
columnKey == 0

columnValue == 1

columnTTL == 2

\* requireColumns appending the TTL column first.
ttlColumnFirst(key, value, ttl) ==
    LET c1 == IF ttl THEN <<columnTTL>> ELSE <<>>
        c2 == IF key THEN Append(c1, columnKey) ELSE c1
        c3 == IF value THEN Append(c2, columnValue) ELSE c2
    IN  IF Len(c3) = 0 THEN [columns |-> <<>>, err |-> TRUE]
        ELSE [columns |-> c3, err |-> FALSE]

requireColumns(key, value, ttl) ==
    LET c1 == IF key THEN <<columnKey>> ELSE <<>>
        c2 == IF value THEN Append(c1, columnValue) ELSE c1
        c3 == IF ttl THEN Append(c2, columnTTL) ELSE c2
    IN  IF Len(c3) = 0 THEN [columns |-> <<>>, err |-> TRUE]
        ELSE [columns |-> c3, err |-> FALSE]

ColumnSets ==
    { requireColumns(k, v, t).columns : k \in BOOLEAN, v \in BOOLEAN, t \in BOOLEAN }
        \ { <<>> }

(***************************************************************************)
(* Glyph widths: text.StringWidthWithoutEscSequences                       *)
(***************************************************************************)
GlyphWidth(g) == IF g = "ESC" THEN 0 ELSE IF g = "W" THEN 2 ELSE 1

RECURSIVE StringWidthWithoutEscSequences(_)
StringWidthWithoutEscSequences(s) ==
    IF s = <<>> THEN 0
    ELSE GlyphWidth(Head(s)) + StringWidthWithoutEscSequences(Tail(s))

(***************************************************************************)
(* Styles of tableStylePresets: the box and options of go-pretty's         *)
(* StyleDefault and of StyleColoredDark / StyleColoredBright (the default  *)
(* box without borders and separators).                                    *)
(***************************************************************************)
StyleBoxDefault ==
    [PaddingLeft |-> <<" ">>, PaddingRight |-> <<" ">>,
     Left |-> <<"|">>, Right |-> <<"|">>,
     MiddleSeparator |-> <<"+">>, EmptySeparator |-> <<" ">>,
     MiddleHorizontal |-> <<"-">>, TopSeparator |-> <<"+">>,
     BottomSeparator |-> <<"+">>, MiddleVertical |-> <<"|">>,
     LeftSeparator |-> <<"+">>, RightSeparator |-> <<"+">>]

defaultTableStyle ==
    [Box |-> StyleBoxDefault,
     Options |-> [SeparateColumns |-> TRUE, DrawBorder |-> TRUE]]

StyleColored ==
    [Box |-> StyleBoxDefault,
     Options |-> [SeparateColumns |-> FALSE, DrawBorder |-> FALSE]]

tableStylePresets == {defaultTableStyle, StyleColored}

(***************************************************************************)
(* Style overhead                                                          *)
(***************************************************************************)
\* SeparatorRoles with the last candidate left out.
rolesWithoutRightSeparator(st) ==
    <<st.Box.MiddleSeparator, st.Box.EmptySeparator, st.Box.MiddleHorizontal,
      st.Box.TopSeparator, st.Box.BottomSeparator, st.Box.MiddleVertical,
      st.Box.LeftSeparator>>

SeparatorRoles(st) ==
    <<st.Box.MiddleSeparator, st.Box.EmptySeparator, st.Box.MiddleHorizontal,
      st.Box.TopSeparator, st.Box.BottomSeparator, st.Box.MiddleVertical,
      st.Box.LeftSeparator, st.Box.RightSeparator>>

RECURSIVE WidestFrom(_, _)
WidestFrom(separators, widest) ==
    IF separators = <<>> THEN widest
    ELSE LET width == StringWidthWithoutEscSequences(Head(separators))
         IN  WidestFrom(Tail(separators), IF width > widest THEN width ELSE widest)

maxSeparatorWidth(st) == WidestFrom(SeparatorRoles(st), 0)

tableRowOverhead(st, columnCount) ==
    IF columnCount = 0 THEN 0
    ELSE LET paddingWidth ==
                 StringWidthWithoutEscSequences(st.Box.PaddingLeft \o st.Box.PaddingRight)
             o1 == paddingWidth * columnCount
             o2 == IF st.Options.SeparateColumns /\ columnCount > 1
                   THEN o1 + (columnCount - 1) * maxSeparatorWidth(st)
                   ELSE o1
         IN  IF st.Options.DrawBorder
             THEN o2 + StringWidthWithoutEscSequences(st.Box.Left \o st.Box.Right)
             ELSE o2

\* contentWidthForStyle without the style overhead taken off.
contentWidthIgnoringOverhead(total, st, columnCount) ==
    IF total < columnCount THEN columnCount ELSE total

\* contentWidthForStyle without the floor at the column count.
contentWidthUnfloored(total, st, columnCount) ==
    IF columnCount = 0 THEN total ELSE total - tableRowOverhead(st, columnCount)

contentWidthForStyle(total, st, columnCount) ==
    IF columnCount = 0 THEN total
    ELSE LET w == total - tableRowOverhead(st, columnCount)
         IN  IF w < columnCount THEN columnCount ELSE w

(***************************************************************************)
(* Terminal width probe                                                    *)
(***************************************************************************)
Digits == <<"0", "1", "2", "3", "4", "5", "6", "7", "8", "9">>

IsDigit(c) == \E d \in 1..10 : Digits[d] = c

DigitVal(c) == (CHOOSE d \in 1..10 : Digits[d] = c) - 1

RECURSIVE DecimalValue(_, _)
DecimalValue(s, acc) ==
    IF s = <<>> THEN acc ELSE DecimalValue(Tail(s), acc * 10 + DigitVal(Head(s)))

\* strconv.Atoi: an optional sign, then one or more decimal digits.
Atoi(s) ==
    LET signed == s # <<>> /\ Head(s) \in {"+", "-"}
        body == IF signed THEN Tail(s) ELSE s
    IN  IF body = <<>> \/ \E i \in 1..Len(body) : ~IsDigit(body[i])
        THEN [err |-> TRUE, val |-> 0]
        ELSE [err |-> FALSE,
              val |-> IF signed /\ Head(s) = "-"
                      THEN 0 - DecimalValue(body, 0)
                      ELSE DecimalValue(body, 0)]

\* detectTerminalWidth consulting COLUMNS before standard output.
columnsBeforeStdout(p) ==
    IF p.sink.isFd /\ ~p.sink.err /\ p.sink.w > 0 THEN p.sink.w
    ELSE IF p.cols # <<>> /\ ~Atoi(p.cols).err /\ Atoi(p.cols).val > 0
         THEN Atoi(p.cols).val
    ELSE IF ~p.stdout.err /\ p.stdout.w > 0 THEN p.stdout.w
    ELSE 0

detectTerminalWidth(p) ==
    IF p.sink.isFd /\ ~p.sink.err /\ p.sink.w > 0 THEN p.sink.w
    ELSE IF ~p.stdout.err /\ p.stdout.w > 0 THEN p.stdout.w
    ELSE IF p.cols # <<>> /\ ~Atoi(p.cols).err /\ Atoi(p.cols).val > 0
         THEN Atoi(p.cols).val
    ELSE 0

(***************************************************************************)
(* Proportional allocator                                                  *)
(***************************************************************************)
minColWidth == 10

\* basePercentageForColumn with Value kept at 0.75 when a TTL column is present.
valueWeightIgnoresTTL(c, hasTTL) ==
    IF c = columnValue THEN 75 ELSE 25

\* basePercentageForColumn with TTL weighted like Value.
ttlWeightedAsValue(c, hasTTL) ==
    IF c = columnKey THEN 25 ELSE IF hasTTL THEN 50 ELSE 75

\* 0.25, 0.5 and 0.75 in hundredths.
basePercentageForColumn(c, hasTTL) ==
    IF c = columnKey THEN 25
    ELSE IF c = columnValue THEN (IF hasTTL THEN 50 ELSE 75)
    ELSE IF c = columnTTL THEN 25
    ELSE 25

\* roundRobinRemainder with the remainder dropped.
remainderDropped(w, rem, i) == w

\* Lines 226-230: the remainder, one character at a time, i = 0, 1, 2, ...
RECURSIVE roundRobinRemainder(_, _, _)
roundRobinRemainder(w, rem, i) ==
    IF rem > 0 /\ Len(w) > 0
    THEN roundRobinRemainder([w EXCEPT ![(i % Len(w)) + 1] = @ + 1], rem - 1, i + 1)
    ELSE w

\* flooredShare raising to the minimum only while the total allows one such column.
minimumWithinBudgetOnly(pct, sum, total) ==
    IF total >= minColWidth THEN Max((pct * total) \div sum, minColWidth)
    ELSE (pct * total) \div sum

\* flooredShare without the minimum column width.
shareWithoutMinimum(pct, sum, total) == (pct * total) \div sum

\* Line 222: max(int((base[i]/sum)*float64(total)), minColWidth).
flooredShare(pct, sum, total) == Max((pct * total) \div sum, minColWidth)

distributeWidths(total0, cols) ==
    LET total == IF total0 <= 0 THEN 100 ELSE total0
        hasTTL == \E i \in 1..Len(cols) : cols[i] = columnTTL
        base == [i \in 1..Len(cols) |-> basePercentageForColumn(cols[i], hasTTL)]
        sum0 == SumSeq(base)
        sum == IF sum0 = 0 THEN 100 ELSE sum0
        floors == [i \in 1..Len(cols) |-> flooredShare(base[i], sum, total)]
    IN  roundRobinRemainder(floors, total - SumSeq(floors), 0)

(***************************************************************************)
(* Cap and redistribute                                                    *)
(***************************************************************************)
capOf(caps, idx) == IF idx <= Len(caps) THEN caps[idx] ELSE 0

\* clampWidth without the content cap.
clampWithoutCap(width, actual) == IF width <= 0 THEN 1 ELSE width

\* clampWidth taking an unknown cap (0) for a cap.
clampUnknownAsCap(width, actual) ==
    LET w1 == IF width <= 0 THEN 1 ELSE width
    IN  IF w1 > actual THEN Max(actual, 1) ELSE w1

\* Lines 86-93: one column of the clamp loop.
clampWidth(width, actual) ==
    LET w1 == IF width <= 0 THEN 1 ELSE width
    IN  IF actual > 0 /\ w1 > actual THEN actual ELSE w1

clampWidths(w, caps) == [idx \in 1..Len(w) |-> clampWidth(w[idx], capOf(caps, idx))]

\* atCap never skipping a column.
capIgnored(actual, width) == FALSE

\* atCap skipping a column only once it is past its cap.
atCapOffByOne(actual, width) == actual > 0 /\ width > actual

\* Line 106: the column is skipped.
atCap(actual, width) == actual > 0 /\ width >= actual

\* budgetSpent with the inner break missing.
budgetNeverSpent(rem) == FALSE

\* Line 112: the inner loop breaks.
budgetSpent(rem) == rem = 0

\* Lines 101-115: one left-to-right pass, from column idx on.
RECURSIVE passFrom(_, _, _, _, _)
passFrom(w, caps, rem, progressed, idx) ==
    IF idx > Len(w) THEN [widths |-> w, remaining |-> rem, progressed |-> progressed]
    ELSE IF atCap(capOf(caps, idx), w[idx])
         THEN passFrom(w, caps, rem, progressed, idx + 1)
         ELSE LET w2 == [w EXCEPT ![idx] = @ + 1]
              IN  IF budgetSpent(rem - 1)
                  THEN [widths |-> w2, remaining |-> rem - 1, progressed |-> TRUE]
                  ELSE passFrom(w2, caps, rem - 1, TRUE, idx + 1)

\* redistributePass starting at the second column.
passSkippingFirstColumn(w, caps, rem) == passFrom(w, caps, rem, FALSE, 2)

redistributePass(w, caps, rem) == passFrom(w, caps, rem, FALSE, 1)

\* noProgress with the progress check missing.
progressNeverChecked(progressed) == FALSE

\* Line 116: the outer loop breaks.
noProgress(progressed) == ~progressed

\* redistribute stopping after its first pass.
redistributeOnePassOnly(w, caps, rem) ==
    IF rem > 0
    THEN LET r == redistributePass(w, caps, rem)
         IN  [widths |-> r.widths, remaining |-> r.remaining]
    ELSE [widths |-> w, remaining |-> rem]

\* Lines 99-119: the redistribution loop.
RECURSIVE redistribute(_, _, _)
redistribute(w, caps, rem) ==
    IF rem > 0
    THEN LET r == redistributePass(w, caps, rem)
         IN  IF noProgress(r.progressed) THEN [widths |-> r.widths, remaining |-> r.remaining]
             ELSE redistribute(r.widths, caps, r.remaining)
    ELSE [widths |-> w, remaining |-> rem]

\* Line 78: the default terminal width.
resolveTotalWidth(detected) == IF detected <= 0 THEN 100 ELSE detected

\* columnConfigs numbering the columns from 0.
configsNumberedFromZero(w) ==
    [idx \in 1..Len(w) |->
        [Number |-> idx - 1, WidthMax |-> w[idx], WidthMaxEnforcer |-> "text.WrapText"]]

\* Lines 121-128.
columnConfigs(w) ==
    [idx \in 1..Len(w) |->
        [Number |-> idx, WidthMax |-> w[idx], WidthMaxEnforcer |-> "text.WrapText"]]

(***************************************************************************)
(* The list command: formats, flags and cell text                          *)
(***************************************************************************)
plainTableStyle == defaultTableStyle

\* tableStylePresets as the map from format name to style.
tableStylePreset ==
    [name \in {"table", "tabular", "table-dark", "table-bright"} |->
        IF name \in {"table", "tabular"} THEN defaultTableStyle ELSE StyleColored]

nilFormat == [name |-> "nil", limitColumns |-> FALSE, style |-> plainTableStyle, render |-> "nil"]

\* buildSupportedListFormats: the four plain formats, one format per table
\* preset, and "auto" as a second name of "table".
tableFormat(name) ==
    [name |-> name, limitColumns |-> TRUE, style |-> tableStylePreset[name], render |-> "Render"]

supportedListFormats ==
    [name \in {"csv", "html", "markdown", "md", "auto"} \cup DOMAIN tableStylePreset |->
        CASE name = "csv"  -> [name |-> name, limitColumns |-> FALSE,
                               style |-> plainTableStyle, render |-> "RenderCSV"]
          [] name = "html" -> [name |-> name, limitColumns |-> FALSE,
                               style |-> plainTableStyle, render |-> "RenderHTML"]
          [] name \in {"markdown", "md"} ->
                              [name |-> "markdown", limitColumns |-> FALSE,
                               style |-> plainTableStyle, render |-> "RenderMarkdown"]
          [] name = "auto" -> tableFormat("table")
          [] OTHER -> tableFormat(name)]

\* resolveListFormat with every supported name resolved to the table format.
resolveEveryFormatAsTable(name) ==
    IF name \in DOMAIN supportedListFormats
    THEN [format |-> tableFormat("table"), err |-> "nil"]
    ELSE [format |-> nilFormat, err |-> "unsupported format"]

resolveListFormat(name) ==
    IF name \in DOMAIN supportedListFormats
    THEN [format |-> supportedListFormats[name], err |-> "nil"]
    ELSE [format |-> nilFormat, err |-> "unsupported format"]

\* ListArgs{}
zeroListArgs ==
    [header |-> FALSE, key |-> FALSE, value |-> FALSE, ttl |-> FALSE,
     binary |-> FALSE, secrets |-> FALSE, format |-> nilFormat]

\* parseFlags with a column check that does not look at --ttl.
columnCheckIgnoresTTL(c) ==
    LET f == resolveListFormat(c.format)
    IN  IF f.err # "nil" THEN [flags |-> zeroListArgs, err |-> f.err]
        ELSE IF c.noKeys /\ c.noValues
        THEN [flags |-> zeroListArgs,
              err |-> "no columns selected; disable --no-keys/--no-values or pass --ttl"]
        ELSE [flags |-> [header |-> ~c.noHeader, key |-> ~c.noKeys, value |-> ~c.noValues,
                         ttl |-> c.ttl, binary |-> c.binary, secrets |-> c.secret,
                         format |-> f.format],
              err |-> "nil"]

\* parseFlags: the format is resolved first, then the column selection is checked.
parseFlags(c) ==
    LET f == resolveListFormat(c.format)
    IN  IF f.err # "nil" THEN [flags |-> zeroListArgs, err |-> f.err]
        ELSE IF c.noKeys /\ c.noValues /\ ~c.ttl
        THEN [flags |-> zeroListArgs,
              err |-> "no columns selected; disable --no-keys/--no-values or pass --ttl"]
        ELSE [flags |-> [header |-> ~c.noHeader, key |-> ~c.noKeys, value |-> ~c.noValues,
                         ttl |-> c.ttl, binary |-> c.binary, secrets |-> c.secret,
                         format |-> f.format],
              err |-> "nil"]

\* Database names are sequences of characters; "@" separates key and database.
RECURSIVE TrimLeft(_)
TrimLeft(s) == IF s # <<>> /\ Head(s) = " " THEN TrimLeft(Tail(s)) ELSE s

RECURSIVE TrimRight(_)
TrimRight(s) ==
    IF s # <<>> /\ s[Len(s)] = " " THEN TrimRight(SubSeq(s, 1, Len(s) - 1)) ELSE s

TrimSpace(s) == TrimRight(TrimLeft(s))

ToLower(s) ==
    [i \in 1..Len(s) |-> IF s[i] = "W" THEN "w" ELSE IF s[i] = "G" THEN "g" ELSE s[i]]

parseDB(v, defaults) ==
    LET t  == TrimSpace(v)
        db == IF t # <<>> /\ Head(t) = "@" THEN Tail(t) ELSE t
    IN  IF db = <<>>
        THEN IF defaults THEN [db |-> <<"default">>, err |-> "nil"]
             ELSE [db |-> <<>>, err |-> "bad db format, use DB or @DB"]
        ELSE [db |-> ToLower(db), err |-> "nil"]

\* The store directories that exist.
ExistingStores == { <<"w">> }

FindStore(k) ==
    LET n == parseDB(k, FALSE)
    IN  IF n.err # "nil" THEN n.err
        ELSE IF TrimSpace(n.db) = <<>> \/ n.db \notin ExistingStores THEN "errNotFound"
        ELSE "nil"

\* Lines 114-130 of list: the target database of the optional DB argument.
resolveTargetDB(args) ==
    IF Len(args) = 1
    THEN LET d == parseDB(args[1], FALSE)
         IN  IF d.err # "nil" THEN [targetDB |-> <<>>, err |-> d.err]
             ELSE IF FindStore(d.db) = "errNotFound"
             THEN [targetDB |-> <<>>, err |-> "does not exist"]
             ELSE IF FindStore(d.db) # "nil" THEN [targetDB |-> <<>>, err |-> FindStore(d.db)]
             ELSE [targetDB |-> <<"@">> \o d.db, err |-> "nil"]
    ELSE [targetDB |-> <<"@", "default">>, err |-> "nil"]

\* Store.parse: KEY, KEY@DB, or an error when "@" occurs twice.
parse(k, defaults) ==
    LET at == { i \in 1..Len(k) : k[i] = "@" }
    IN  IF at = {}
        THEN [key |-> ToLower(k), db |-> IF defaults THEN <<"default">> ELSE <<>>, err |-> "nil"]
        ELSE IF Cardinality(at) = 1
        THEN LET i == CHOOSE j \in at : TRUE
             IN  [key |-> ToLower(SubSeq(k, 1, i - 1)),
                  db |-> ToLower(SubSeq(k, i + 1, Len(k))), err |-> "nil"]
        ELSE [key |-> <<>>, db |-> <<>>, err |-> "bad key format, use KEY@DB"]

\* A string of n ordinary characters.
Chars(n) == [i \in 1..n |-> "x"]

buildHeaderCells(columnKinds) ==
    [i \in 1..Len(columnKinds) |->
        CASE columnKinds[i] = columnKey   -> <<"K", "e", "y">>
          [] columnKinds[i] = columnValue -> <<"V", "a", "l", "u", "e">>
          [] columnKinds[i] = columnTTL   -> <<"T", "T", "L">>]

\* text.LongestLineLen counting every character of the string as one line.
wholeStringAsOneLine(str) == StringWidthWithoutEscSequences(str)

\* text.LongestLineLen: the widest line, escape sequences not counted.
RECURSIVE longestLineFrom(_, _, _, _)
longestLineFrom(str, i, currLength, maxLength) ==
    IF i > Len(str) THEN Max(currLength, maxLength)
    ELSE IF str[i] = "NL" THEN longestLineFrom(str, i + 1, 0, Max(currLength, maxLength))
    ELSE longestLineFrom(str, i + 1, currLength + GlyphWidth(str[i]), maxLength)

LongestLineLen(str) == longestLineFrom(str, 1, 0, 0)

\* updateMaxContentWidths keeping the last width seen.
updateToLastSeen(maxWidths, values) ==
    IF Len(maxWidths) = 0 THEN maxWidths
    ELSE [i \in 1..Len(maxWidths) |->
            IF i <= Len(values) THEN LongestLineLen(values[i]) ELSE maxWidths[i]]

updateMaxContentWidths(maxWidths, values) ==
    IF Len(maxWidths) = 0 THEN maxWidths
    ELSE LET limit == IF Len(values) < Len(maxWidths) THEN Len(values) ELSE Len(maxWidths)
         IN  [i \in 1..Len(maxWidths) |->
                IF i <= limit /\ LongestLineLen(values[i]) > maxWidths[i]
                THEN LongestLineLen(values[i])
                ELSE maxWidths[i]]

\* updateMaxContentWidths called for one row after another, as list does.
RECURSIVE foldRows(_, _)
foldRows(maxWidths, rows) ==
    IF rows = <<>> THEN maxWidths
    ELSE foldRows(updateMaxContentWidths(maxWidths, Head(rows)), Tail(rows))

metaSecret == 1

\* meta&metaSecret != 0
isSecretMeta(meta) == (meta \div metaSecret) % 2 = 1

utf8Valid(v) == \A i \in 1..Len(v) : v[i] # "BAD"

\* term.IsTerminal(stdout)
stdoutIsTerminal(p) == ~p.stdout.err

formatBytes(includeBinary, v, tty) ==
    IF tty /\ ~includeBinary /\ ~utf8Valid(v)
    THEN <<"(">> \o Chars(19) \o <<")">>
    ELSE v

\* formatExpiry at clock reading now: "never", or the RFC 3339 instant followed
\* by " (expired)" or by " (in <remaining>)".
formatExpiry(expiresAt, now) ==
    IF expiresAt = 0 THEN <<"n", "e", "v", "e", "r">>
    ELSE IF expiresAt - now <= 0 THEN Chars(20) \o <<" ", "(">> \o Chars(7) \o <<")">>
    ELSE Chars(20) \o <<" ", "(", "i", "n", " ">> \o Chars(2) \o <<")">>

placeholder == Chars(10)

\* readsValue reading the value of secret entries too.
readsEveryValue(f, item) == f.value

\* The value read of lines 186-195 is made for this item.
readsValue(f, item) == f.value /\ (~isSecretMeta(item.meta) \/ f.secrets)

\* Lines 197-210: the cells of one row.
rowCells(f, columnKinds, item, valueStr, now) ==
    [i \in 1..Len(columnKinds) |->
        CASE columnKinds[i] = columnKey   -> item.key
          [] columnKinds[i] = columnValue ->
                IF isSecretMeta(item.meta) /\ ~f.secrets THEN placeholder ELSE valueStr
          [] columnKinds[i] = columnTTL   -> formatExpiry(item.expiresAt, now)]

\* it.Valid() failing one item early.
iteratorStopsEarly(position, snapshot) == position < Len(snapshot)

\* it.Valid()
iteratorValid(position, snapshot) == position <= Len(snapshot)

\* The error check of lines 219-221 never returning.
transactionErrorIgnored(err) == FALSE

\* Lines 219-221: list returns the error of Store.Transaction.
transactionFailed(err) == err # "nil"

noTransaction == [db |-> "none", tx |-> "none", err |-> "nil"]

emptyWriter == [created |-> FALSE, header |-> <<>>, rows |-> <<>>]

\* The flag defaults of lines 233-242 and no DB argument.
defaultCommand ==
    [args |-> <<>>, secret |-> FALSE, noKeys |-> FALSE, noValues |-> FALSE,
     ttl |-> FALSE, noHeader |-> FALSE, binary |-> FALSE, format |-> "table"]

\* TransactionArgs{}
zeroTransactionArgs == [key |-> <<>>, readonly |-> FALSE, sync |-> FALSE]

emptyBatch == [state |-> "none", sets |-> <<>>, flushes |-> 0]

\* Store.Transaction, restore and dump have not run.
IoIdle ==
    /\ trans = zeroTransactionArgs
    /\ dbName = <<>>
    /\ input = <<>>
    /\ lineNo = 0
    /\ restored = 0
    /\ wb = emptyBatch
    /\ stderr = <<>>
    /\ out = <<>>

\* list has done nothing.
ListUntouched ==
    /\ targetDB = <<>>
    /\ txn = noTransaction
    /\ store = <<>>
    /\ cursor = 0
    /\ tw = emptyWriter
    /\ rendered = <<>>
    /\ calls = [apply |-> 0, update |-> 0]
    /\ ret = "running"

\* Before any command has done anything.
ListIdle == IoIdle /\ ListUntouched

NotListing == cmd = defaultCommand /\ flags = zeroListArgs /\ ListIdle

(***************************************************************************)
(* The layout run: applyColumnConstraints on given inputs                  *)
(***************************************************************************)
NoProbeSource == [isFd |-> FALSE, err |-> TRUE, w |-> 0]

TerminalOfWidth(w) ==
    [sink |-> [isFd |-> TRUE, err |-> FALSE, w |-> w],
     stdout |-> [err |-> TRUE, w |-> 0],
     cols |-> <<>>]

ContentWidthsFor(cols) == [1..Len(cols) -> CapValues]

NothingComputed ==
    /\ totalWidth = 0 /\ contentWidth = 0
    /\ initial = <<>> /\ clamped = <<>> /\ widths = <<>>
    /\ remaining = 0 /\ configs = <<>> /\ allowedRowLength = 0 /\ overhead = 0

Idle == NothingComputed /\ NotListing

Init ==
    /\ pc = "start"
    /\ probe \in { TerminalOfWidth(w) : w \in 1..MaxTotalWidth }
    /\ style \in tableStylePresets
    /\ columns \in ColumnSets
    /\ maxContentWidths \in ContentWidthsFor(columns)
    /\ Idle

\* constrainedWidths reading the sink's answer alone, unresolved.
constrainedWidthsBySource(p, st, cols, caps) ==
    LET total == resolveTotalWidth(IF p.sink.isFd /\ ~p.sink.err THEN p.sink.w ELSE 0)
        cw == contentWidthForStyle(total, st, Len(cols))
        w0 == distributeWidths(cw, cols)
        w1 == clampWidths(w0, caps)
        r  == redistribute(w1, caps, cw - SumSeq(w1))
    IN  [totalWidth |-> total, contentWidth |-> cw, initial |-> w0, clamped |-> w1,
         widths |-> r.widths, remaining |-> r.remaining]

\* Lines 77-119: the widths applyColumnConstraints computes.
constrainedWidths(p, st, cols, caps) ==
    LET total == resolveTotalWidth(detectTerminalWidth(p))
        cw == contentWidthForStyle(total, st, Len(cols))
        w0 == distributeWidths(cw, cols)
        w1 == clampWidths(w0, caps)
        r  == redistribute(w1, caps, cw - SumSeq(w1))
    IN  [totalWidth |-> total, contentWidth |-> cw, initial |-> w0, clamped |-> w1,
         widths |-> r.widths, remaining |-> r.remaining]

applyColumnConstraints ==
    /\ pc = "start"
    /\ LET r == constrainedWidths(probe, style, columns, maxContentWidths)
       IN  /\ totalWidth' = r.totalWidth
           /\ contentWidth' = r.contentWidth
           /\ initial' = r.initial
           /\ clamped' = r.clamped
           /\ widths' = r.widths
           /\ remaining' = r.remaining
           /\ configs' = columnConfigs(r.widths)
           /\ allowedRowLength' = r.totalWidth
    /\ pc' = "applied"
    /\ UNCHANGED <<ioVars, listVars, probe, style, columns, maxContentWidths, overhead>>

Next == applyColumnConstraints

Spec == Init /\ [][Next]_vars

(***************************************************************************)
(* The same run with the redistribution loop taken one pass at a time      *)
(***************************************************************************)
\* Before list calls applyColumnConstraints: nothing is computed yet.
LoopInit ==
    /\ pc = "start"
    /\ probe = [sink |-> NoProbeSource, stdout |-> [err |-> TRUE, w |-> 0], cols |-> <<>>]
    /\ style = defaultTableStyle
    /\ columns = <<>>
    /\ maxContentWidths = <<>>
    /\ Idle

\* Lines 77-98, for the arguments list passes: up to the first test of the loop.
clampStep ==
    /\ pc = "start"
    /\ \E p \in { TerminalOfWidth(w) : w \in 1..MaxLoopWidth },
          st \in tableStylePresets, cols \in ColumnSets :
         \E caps \in [1..Len(cols) -> LoopCapValues] :
            LET total == resolveTotalWidth(detectTerminalWidth(p))
                cw == contentWidthForStyle(total, st, Len(cols))
                w0 == distributeWidths(cw, cols)
                w1 == clampWidths(w0, caps)
            IN  /\ probe' = p
                /\ style' = st
                /\ columns' = cols
                /\ maxContentWidths' = caps
                /\ totalWidth' = total
                /\ contentWidth' = cw
                /\ initial' = w0
                /\ clamped' = w1
                /\ widths' = w1
                /\ remaining' = cw - SumSeq(w1)
    /\ pc' = "loop"
    /\ UNCHANGED <<ioVars, listVars, configs, allowedRowLength, overhead>>

\* Lines 99-118: the loop test holds; one pass, then the progress check.
redistributionPass ==
    /\ pc = "loop"
    /\ remaining > 0
    /\ LET r == redistributePass(widths, maxContentWidths, remaining)
       IN  /\ widths' = r.widths
           /\ remaining' = r.remaining
           /\ pc' = IF noProgress(r.progressed) THEN "configure" ELSE "loop"
    /\ UNCHANGED <<ioVars, listVars, probe, style, columns, maxContentWidths, totalWidth, contentWidth,
                   initial, clamped, configs, allowedRowLength, overhead>>

\* Line 99: the loop test fails.
redistributionExit ==
    /\ pc = "loop"
    /\ ~(remaining > 0)
    /\ pc' = "configure"
    /\ UNCHANGED <<ioVars, listVars, probe, style, columns, maxContentWidths, totalWidth, contentWidth,
                   initial, clamped, widths, remaining, configs, allowedRowLength,
                   overhead>>

\* Lines 121-130.
configureStep ==
    /\ pc = "configure"
    /\ configs' = columnConfigs(widths)
    /\ allowedRowLength' = totalWidth
    /\ pc' = "applied"
    /\ UNCHANGED <<ioVars, listVars, probe, style, columns, maxContentWidths, totalWidth, contentWidth,
                   initial, clamped, widths, remaining, overhead>>

LoopNext == clampStep \/ redistributionPass \/ redistributionExit \/ configureStep

\* The run is sequential code: a step that can be taken is taken.
LoopSpec == LoopInit /\ [][LoopNext]_vars /\ WF_vars(LoopNext)

(***************************************************************************)
(* The run under every answer of the terminal width probe                  *)
(***************************************************************************)
SinkAnswers ==
    {NoProbeSource, [isFd |-> TRUE, err |-> TRUE, w |-> 0]}
        \cup { [isFd |-> TRUE, err |-> FALSE, w |-> w] : w \in ProbeWidths }

StdoutAnswers ==
    {[err |-> TRUE, w |-> 0]} \cup { [err |-> FALSE, w |-> w] : w \in ProbeWidths }

\* Values of COLUMNS, each with the positive integer it stands for (0: none).
ColumnsCases ==
    { [text |-> <<>>, value |-> 0],
      [text |-> <<"x">>, value |-> 0],
      [text |-> <<"-">>, value |-> 0],
      [text |-> <<"0">>, value |-> 0],
      [text |-> <<"-", "5">>, value |-> 0],
      [text |-> <<"8", "0", "x">>, value |-> 0],
      [text |-> <<"8", "0">>, value |-> 80],
      [text |-> <<"+", "6", "0">>, value |-> 60],
      [text |-> <<"1", "0", "0">>, value |-> 100] }

ProbeInit ==
    /\ pc = "start"
    /\ probe \in [sink : SinkAnswers, stdout : StdoutAnswers,
                  cols : { c.text : c \in ColumnsCases }]
    /\ style \in tableStylePresets
    /\ columns \in ColumnSets
    /\ maxContentWidths \in [1..Len(columns) -> ProbeCapValues]
    /\ Idle

ProbeSpec == ProbeInit /\ [][Next]_vars

(***************************************************************************)
(* The layout run repeated on the table writer                             *)
(***************************************************************************)
\* The answers of the probe with COLUMNS unset or 100.
RerunProbes ==
    [sink : SinkAnswers, stdout : StdoutAnswers, cols : {<<>>, <<"1", "0", "0">>}]

RerunInit ==
    /\ pc = "start"
    /\ probe \in RerunProbes
    /\ style \in tableStylePresets
    /\ columns \in ColumnSets
    /\ maxContentWidths \in [1..Len(columns) -> ProbeCapValues]
    /\ Idle

\* applyColumnConstraints called again with the same style, ColumnSet and
\* ContentWidths, the terminal answering with the same resolved width.
applyColumnConstraintsAgain ==
    /\ pc = "applied"
    /\ \E p \in RerunProbes :
          /\ resolveTotalWidth(detectTerminalWidth(p)) = totalWidth
          /\ probe' = p
          /\ LET r == constrainedWidths(p, style, columns, maxContentWidths)
             IN  /\ totalWidth' = r.totalWidth
                 /\ contentWidth' = r.contentWidth
                 /\ initial' = r.initial
                 /\ clamped' = r.clamped
                 /\ widths' = r.widths
                 /\ remaining' = r.remaining
                 /\ configs' = columnConfigs(r.widths)
                 /\ allowedRowLength' = r.totalWidth
    /\ pc' = "reapplied"
    /\ UNCHANGED <<ioVars, listVars, style, columns, maxContentWidths, overhead>>

RerunNext == applyColumnConstraints \/ applyColumnConstraintsAgain

RerunSpec == RerunInit /\ [][RerunNext]_vars

(***************************************************************************)
(* The style overhead calculator on arbitrary styles                       *)
(***************************************************************************)
SeparatorGlyphs == {<<"+">>, <<"W">>, <<"ESC", "+", "+", "+">>}

\* A box whose r-th separator candidate is g and whose others are "+".
BoxWith(padL, padR, left, right, r, g) ==
    [PaddingLeft |-> padL, PaddingRight |-> padR, Left |-> left, Right |-> right,
     MiddleSeparator  |-> IF r = 1 THEN g ELSE <<"+">>,
     EmptySeparator   |-> IF r = 2 THEN g ELSE <<"+">>,
     MiddleHorizontal |-> IF r = 3 THEN g ELSE <<"+">>,
     TopSeparator     |-> IF r = 4 THEN g ELSE <<"+">>,
     BottomSeparator  |-> IF r = 5 THEN g ELSE <<"+">>,
     MiddleVertical   |-> IF r = 6 THEN g ELSE <<"+">>,
     LeftSeparator    |-> IF r = 7 THEN g ELSE <<"+">>,
     RightSeparator   |-> IF r = 8 THEN g ELSE <<"+">>]

OverheadStyles ==
    { [Box |-> BoxWith(padL, padR, left, right, r, g),
       Options |-> [SeparateColumns |-> sep, DrawBorder |-> border]] :
        padL \in {<<>>, <<"ESC", " ">>}, padR \in {<<" ">>, <<"W">>},
        left \in {<<"|">>, <<"ESC", "W">>}, right \in {<<>>, <<"|">>},
        r \in 1..8, g \in SeparatorGlyphs,
        sep \in BOOLEAN, border \in BOOLEAN }

OverheadInit ==
    /\ pc = "start"
    /\ probe \in { TerminalOfWidth(w) : w \in 1..MaxOverheadWidth }
    /\ style \in OverheadStyles
    /\ columns \in ColumnSets
    /\ maxContentWidths = [i \in 1..Len(columns) |-> 0]
    /\ Idle

\* contentWidthForStyle(totalWidth, tw, len(columns)), line 81, with the
\* overhead it subtracts.
measureContentWidth ==
    /\ pc = "start"
    /\ totalWidth' = resolveTotalWidth(detectTerminalWidth(probe))
    /\ overhead' = tableRowOverhead(style, Len(columns))
    /\ contentWidth' = contentWidthForStyle(totalWidth', style, Len(columns))
    /\ pc' = "measured"
    /\ UNCHANGED <<ioVars, listVars, probe, style, columns, maxContentWidths, initial, clamped, widths,
                   remaining, configs, allowedRowLength>>

OverheadNext == measureContentWidth

OverheadSpec == OverheadInit /\ [][OverheadNext]_vars

(***************************************************************************)
(* requireColumns on every ListArgs value                                  *)
(***************************************************************************)
ColumnsInit ==
    /\ pc = "args"
    /\ probe = [sink |-> NoProbeSource, stdout |-> [err |-> TRUE, w |-> 0], cols |-> <<>>]
    /\ style = defaultTableStyle
    /\ columns = <<>>
    /\ maxContentWidths = <<>>
    /\ NothingComputed
    /\ cmd = defaultCommand
    /\ flags \in [header : BOOLEAN, key : BOOLEAN, value : BOOLEAN, ttl : BOOLEAN,
                  binary : BOOLEAN, secrets : BOOLEAN,
                  format : { supportedListFormats[n] : n \in DOMAIN supportedListFormats }]
    /\ ListIdle

\* Lines 23-38 called on the flags.
callRequireColumns ==
    /\ pc = "args"
    /\ LET r == requireColumns(flags.key, flags.value, flags.ttl)
       IN  /\ columns' = r.columns
           /\ ret' = IF r.err THEN "no columns selected; enable key, value, or ttl output"
                     ELSE "nil"
    /\ pc' = "required"
    /\ UNCHANGED <<ioVars, probe, style, maxContentWidths, totalWidth, contentWidth, initial, clamped,
                   widths, remaining, configs, allowedRowLength, overhead,
                   cmd, flags, targetDB, txn, store, cursor, tw, rendered, calls>>

ColumnsNext == callRequireColumns

ColumnsSpec == ColumnsInit /\ [][ColumnsNext]_vars

(***************************************************************************)
(* The list command, one step of its body at a time                        *)
(***************************************************************************)
\* The DB argument: absent, an existing store (plain and as @DB), a store
\* that does not exist, and a bare "@".
DBArguments == { <<>>, << <<"w">> >>, << <<"@", "W">> >>, << <<"g">> >>, << <<"@">> >> }

FormatArguments == DOMAIN supportedListFormats \cup {"xml"}

Commands ==
    [args : DBArguments, secret : BOOLEAN, noKeys : BOOLEAN, noValues : BOOLEAN,
     ttl : BOOLEAN, noHeader : BOOLEAN, binary : BOOLEAN, format : FormatArguments]

\* Standard output is a terminal of the given width, or is no terminal and
\* COLUMNS is unset.
ListProbes ==
    { [sink |-> [isFd |-> TRUE, err |-> FALSE, w |-> MaxListWidth],
       stdout |-> [err |-> FALSE, w |-> MaxListWidth], cols |-> <<>>],
      [sink |-> [isFd |-> TRUE, err |-> TRUE, w |-> 0],
       stdout |-> [err |-> TRUE, w |-> 0], cols |-> <<>>] }

\* Entries of the store, in key order: a two-line value, a secret with an
\* escape sequence and a wide character that expires, a value that is no
\* valid UTF-8 under a long key.
StoreItems ==
    << [key |-> <<"a">>, value |-> <<"x", "x", "NL", "x", "x", "x">>,
        meta |-> 0, expiresAt |-> 0],
       [key |-> <<"b", "b">>, value |-> <<"ESC", "W", "x", "ESC">>,
        meta |-> 1, expiresAt |-> 2],
       [key |-> Chars(12), value |-> <<"BAD", "x">> \o Chars(40),
        meta |-> 2, expiresAt |-> 0] >>

RECURSIVE itemsAt(_)
itemsAt(I) ==
    IF I = {} THEN <<>>
    ELSE LET m == CHOOSE i \in I : \A j \in I : i <= j
         IN  <<StoreItems[m]>> \o itemsAt(I \ {m})

Snapshots ==
    { itemsAt(I) : I \in { J \in SUBSET (1..Len(StoreItems)) : Cardinality(J) <= MaxRows } }

\* time.Until is taken before or at the expiry of the expiring entry.
ClockReadings == {1, 2}

ListInit ==
    /\ pc = "list"
    /\ probe \in ListProbes
    /\ style = defaultTableStyle
    /\ columns = <<>>
    /\ maxContentWidths = <<>>
    /\ NothingComputed
    /\ cmd \in Commands
    /\ flags = zeroListArgs
    /\ ListIdle

\* Lines 114-135: the DB argument, then parseFlags.
listParseArguments ==
    /\ pc = "list"
    /\ LET t == resolveTargetDB(cmd.args)
           f == parseFlags(cmd)
       IN  IF t.err # "nil"
           THEN /\ ret' = t.err
                /\ pc' = "done"
                /\ UNCHANGED <<targetDB, flags>>
           ELSE IF f.err # "nil"
           THEN /\ ret' = f.err
                /\ pc' = "done"
                /\ targetDB' = t.targetDB
                /\ UNCHANGED flags
           ELSE /\ targetDB' = t.targetDB
                /\ flags' = f.flags
                /\ pc' = "setup"
                /\ UNCHANGED ret
    /\ UNCHANGED <<ioVars, probe, style, columns, maxContentWidths, totalWidth, contentWidth, initial,
                   clamped, widths, remaining, configs, allowedRowLength, overhead,
                   cmd, txn, store, cursor, tw, rendered, calls>>

\* Lines 137-164: requireColumns, the table writer and its style, the
\* allocation of maxContentWidths, the header.
listCreateTable ==
    /\ pc = "setup"
    /\ LET r == requireColumns(flags.key, flags.value, flags.ttl)
           limitColumns == flags.format.name # "nil" /\ flags.format.limitColumns
           allocated == IF limitColumns THEN [i \in 1..Len(r.columns) |-> 0] ELSE <<>>
           header == buildHeaderCells(r.columns)
       IN  IF r.err
           THEN /\ ret' = "no columns selected; enable key, value, or ttl output"
                /\ pc' = "done"
                /\ UNCHANGED <<columns, style, maxContentWidths, tw, calls>>
           ELSE /\ columns' = r.columns
                /\ style' = IF flags.format.name # "nil" THEN flags.format.style
                            ELSE defaultTableStyle
                /\ IF flags.header
                   THEN /\ maxContentWidths' =
                              IF limitColumns THEN updateMaxContentWidths(allocated, header)
                              ELSE allocated
                        /\ calls' = IF limitColumns
                                    THEN [calls EXCEPT !.update = calls.update + 1]
                                    ELSE calls
                        /\ tw' = [created |-> TRUE, header |-> <<header>>, rows |-> <<>>]
                   ELSE /\ maxContentWidths' = allocated
                        /\ calls' = calls
                        /\ tw' = [created |-> TRUE, header |-> <<>>, rows |-> <<>>]
                /\ pc' = "transaction"
                /\ UNCHANGED ret
    /\ UNCHANGED <<ioVars, probe, totalWidth, contentWidth, initial, clamped, widths, remaining,
                   configs, allowedRowLength, overhead,
                   cmd, flags, targetDB, txn, store, cursor, rendered>>

\* Store.Transaction up to the call of transact: parse, open, the deferred
\* Close, Sync, NewTransaction; then the iterator is rewound.
transactionBegin ==
    /\ pc = "transaction"
    /\ LET k == parse(targetDB, TRUE)
       IN  IF k.err # "nil"
           THEN /\ txn' = [db |-> "none", tx |-> "none", err |-> k.err]
                /\ pc' = "returned"
                /\ UNCHANGED <<store, cursor>>
           ELSE \/ /\ txn' = [db |-> "none", tx |-> "none", err |-> "open failed"]
                   /\ pc' = "returned"
                   /\ UNCHANGED <<store, cursor>>
                \/ /\ txn' = [db |-> "closed", tx |-> "none", err |-> "sync failed"]
                   /\ pc' = "returned"
                   /\ UNCHANGED <<store, cursor>>
                \/ /\ \E snapshot \in Snapshots : store' = snapshot
                   /\ cursor' = 1
                   /\ txn' = [db |-> "open", tx |-> "open", err |-> "nil"]
                   /\ pc' = "iterate"
    /\ UNCHANGED <<ioVars, probe, style, columns, maxContentWidths, totalWidth, contentWidth, initial,
                   clamped, widths, remaining, configs, allowedRowLength, overhead,
                   cmd, flags, targetDB, tw, rendered, calls, ret>>

\* Lines 178-214: one item of the iteration; a failed value read ends transact
\* and Store.Transaction with that error.
iterateRow ==
    /\ pc = "iterate"
    /\ iteratorValid(cursor, store)
    /\ LET item == store[cursor]
           limitColumns == flags.format.name # "nil" /\ flags.format.limitColumns
           valueStr == IF readsValue(flags, item)
                       THEN formatBytes(flags.binary, item.value, stdoutIsTerminal(probe))
                       ELSE <<>>
       IN  \/ /\ readsValue(flags, item)
              /\ txn' = [db |-> "closed", tx |-> "discarded", err |-> "value read failed"]
              /\ pc' = "returned"
              /\ UNCHANGED <<maxContentWidths, tw, cursor, calls>>
           \/ \E now \in ClockReadings :
                LET cells == rowCells(flags, columns, item, valueStr, now)
                IN  /\ maxContentWidths' =
                           IF limitColumns THEN updateMaxContentWidths(maxContentWidths, cells)
                           ELSE maxContentWidths
                    /\ calls' = IF limitColumns
                                THEN [calls EXCEPT !.update = calls.update + 1]
                                ELSE calls
                    /\ tw' = [tw EXCEPT !.rows = Append(tw.rows, cells)]
                    /\ cursor' = cursor + 1
                    /\ UNCHANGED <<txn, pc>>
    /\ UNCHANGED <<ioVars, probe, style, columns, totalWidth, contentWidth, initial, clamped, widths,
                   remaining, configs, allowedRowLength, overhead,
                   cmd, flags, targetDB, store, rendered, ret>>

\* The iteration is over: transact returns nil, the transaction is discarded,
\* the database closed, and the read-only Store.Transaction returns nil.
transactionEnd ==
    /\ pc = "iterate"
    /\ ~iteratorValid(cursor, store)
    /\ txn' = [db |-> "closed", tx |-> "discarded", err |-> "nil"]
    /\ pc' = "returned"
    /\ UNCHANGED <<ioVars, probe, style, columns, maxContentWidths, totalWidth, contentWidth, initial,
                   clamped, widths, remaining, configs, allowedRowLength, overhead,
                   cmd, flags, targetDB, store, cursor, tw, rendered, calls, ret>>

\* Lines 219-225: the error of Store.Transaction is returned; otherwise the
\* table formats call applyColumnConstraints.
listConstrain ==
    /\ pc = "returned"
    /\ LET limitColumns == flags.format.name # "nil" /\ flags.format.limitColumns
           r == constrainedWidths(probe, style, columns, maxContentWidths)
       IN  IF transactionFailed(txn.err)
           THEN /\ ret' = txn.err
                /\ pc' = "done"
                /\ UNCHANGED <<totalWidth, contentWidth, initial, clamped, widths, remaining,
                               configs, allowedRowLength, calls>>
           ELSE IF limitColumns
           THEN /\ totalWidth' = r.totalWidth
                /\ contentWidth' = r.contentWidth
                /\ initial' = r.initial
                /\ clamped' = r.clamped
                /\ widths' = r.widths
                /\ remaining' = r.remaining
                /\ configs' = columnConfigs(r.widths)
                /\ allowedRowLength' = r.totalWidth
                /\ calls' = [calls EXCEPT !.apply = calls.apply + 1]
                /\ pc' = "render"
                /\ UNCHANGED ret
           ELSE /\ pc' = "render"
                /\ UNCHANGED <<totalWidth, contentWidth, initial, clamped, widths, remaining,
                               configs, allowedRowLength, calls, ret>>
    /\ UNCHANGED <<ioVars, probe, style, columns, maxContentWidths, overhead,
                   cmd, flags, targetDB, txn, store, cursor, tw, rendered>>

\* Lines 227-230: the render method of the format, then return nil.
listRender ==
    /\ pc = "render"
    /\ rendered' = IF flags.format.name # "nil" /\ flags.format.render # "nil"
                   THEN Append(rendered, flags.format.render)
                   ELSE rendered
    /\ ret' = "nil"
    /\ pc' = "done"
    /\ UNCHANGED <<ioVars, probe, style, columns, maxContentWidths, totalWidth, contentWidth, initial,
                   clamped, widths, remaining, configs, allowedRowLength, overhead,
                   cmd, flags, targetDB, txn, store, cursor, tw, calls>>

ListNext ==
    \/ listParseArguments
    \/ listCreateTable
    \/ transactionBegin
    \/ iterateRow
    \/ transactionEnd
    \/ listConstrain
    \/ listRender

ListSpec == ListInit /\ [][ListNext]_vars

(***************************************************************************)
(* Store.Transaction on its own                                            *)
(***************************************************************************)
\* Keys given to Store.Transaction: KEY, KEY@DB, @DB, KEY@ and a key with two "@".
TransactionKeys ==
    { <<>>, <<"k">>, <<"k", "@", "w">>, <<"@", "w">>, <<"@", "default">>, <<"k", "@">>,
      <<"a", "@", "b", "@", "c">> }

TransactionInit ==
    /\ pc = "tx"
    /\ probe = [sink |-> NoProbeSource, stdout |-> [err |-> TRUE, w |-> 0], cols |-> <<>>]
    /\ style = defaultTableStyle
    /\ columns = <<>>
    /\ maxContentWidths = <<>>
    /\ NothingComputed
    /\ cmd = defaultCommand /\ flags = zeroListArgs /\ ListUntouched
    /\ trans \in [key : TransactionKeys, readonly : BOOLEAN, sync : BOOLEAN]
    /\ dbName = <<>>
    /\ input = <<>> /\ lineNo = 0 /\ restored = 0 /\ wb = emptyBatch
    /\ stderr = <<>> /\ out = <<>>

\* Lines 64-73: parse, open, and the deferred Close.
storeTransactionOpen ==
    /\ pc = "tx"
    /\ LET k == parse(trans.key, TRUE)
       IN  IF k.err # "nil"
           THEN /\ txn' = [db |-> "none", tx |-> "none", err |-> k.err]
                /\ ret' = k.err
                /\ pc' = "returned"
                /\ UNCHANGED dbName
           ELSE /\ dbName' = IF k.db = <<>> THEN <<"default">> ELSE k.db
                /\ \/ /\ txn' = [db |-> "none", tx |-> "none", err |-> "open failed"]
                      /\ ret' = "open failed"
                      /\ pc' = "returned"
                   \/ /\ txn' = [db |-> "open", tx |-> "none", err |-> "nil"]
                      /\ pc' = "opened"
                      /\ UNCHANGED ret
    /\ UNCHANGED <<probe, style, columns, maxContentWidths, totalWidth, contentWidth, initial,
                   clamped, widths, remaining, configs, allowedRowLength, overhead,
                   cmd, flags, targetDB, store, cursor, tw, rendered, calls,
                   trans, input, lineNo, restored, wb, stderr, out>>

\* Lines 75-83: Sync when asked for, then NewTransaction and the deferred Discard.
storeTransactionSync ==
    /\ pc = "opened"
    /\ \/ /\ trans.sync
          /\ txn' = [db |-> "closed", tx |-> "none", err |-> "sync failed"]
          /\ ret' = "sync failed"
          /\ pc' = "returned"
       \/ /\ txn' = [txn EXCEPT !.tx = "open"]
          /\ pc' = "transact"
          /\ UNCHANGED ret
    /\ UNCHANGED <<probe, style, columns, maxContentWidths, totalWidth, contentWidth, initial,
                   clamped, widths, remaining, configs, allowedRowLength, overhead,
                   cmd, flags, targetDB, store, cursor, tw, rendered, calls,
                   trans, dbName, input, lineNo, restored, wb, stderr, out>>

\* commits for read-only transactions too.
commitsReadOnly(args, err) == err = "nil"

\* Lines 85-93: Commit is reached.
commits(args, err) == err = "nil" /\ ~args.readonly

\* Lines 85-91: the callback runs; its error, or nil for a read-only
\* transaction, is returned after Discard and Close.
storeTransactionTransact ==
    /\ pc = "transact"
    /\ \E err \in {"nil", "transact failed"} :
          IF commits(trans, err)
          THEN /\ pc' = "commit"
               /\ UNCHANGED <<txn, ret>>
          ELSE /\ txn' = [db |-> "closed", tx |-> "discarded", err |-> err]
               /\ ret' = err
               /\ pc' = "returned"
    /\ UNCHANGED <<probe, style, columns, maxContentWidths, totalWidth, contentWidth, initial,
                   clamped, widths, remaining, configs, allowedRowLength, overhead,
                   cmd, flags, targetDB, store, cursor, tw, rendered, calls,
                   trans, dbName, input, lineNo, restored, wb, stderr, out>>

\* Line 93: Commit and its result, then the deferred Discard and Close.
storeTransactionCommit ==
    /\ pc = "commit"
    /\ \/ /\ txn' = [db |-> "closed", tx |-> "committed", err |-> "nil"]
          /\ ret' = "nil"
       \/ /\ txn' = [db |-> "closed", tx |-> "commit failed", err |-> "commit failed"]
          /\ ret' = "commit failed"
    /\ pc' = "returned"
    /\ UNCHANGED <<probe, style, columns, maxContentWidths, totalWidth, contentWidth, initial,
                   clamped, widths, remaining, configs, allowedRowLength, overhead,
                   cmd, flags, targetDB, store, cursor, tw, rendered, calls,
                   trans, dbName, input, lineNo, restored, wb, stderr, out>>

TransactionNext ==
    \/ storeTransactionOpen
    \/ storeTransactionSync
    \/ storeTransactionTransact
    \/ storeTransactionCommit

TransactionSpec == TransactionInit /\ [][TransactionNext]_vars

(***************************************************************************)
(* restore: NDJSON lines into a write batch                                *)
(*                                                                         *)
(* A line of input is kept as what the scanner, strings.TrimSpace and      *)
(* json.Unmarshal make of it: nothing, only white space, text that is no   *)
(* JSON, or the dumpEntry of a JSON object.  Base64 text is the encoded    *)
(* bytes behind a "b64" mark; any other non-empty text does not decode.    *)
(***************************************************************************)
\* base64.StdEncoding.EncodeToString
EncodeToString(v) == IF v = <<>> THEN <<>> ELSE <<"b64">> \o v

\* base64.StdEncoding.DecodeString
DecodeString(s) ==
    IF s = <<>> THEN [bytes |-> <<>>, err |-> "nil"]
    ELSE IF Head(s) = "b64" THEN [bytes |-> Tail(s), err |-> "nil"]
    ELSE [bytes |-> <<>>, err |-> "illegal base64 data"]

\* decodeEntryValue accepting any encoding name as text.
decodeAnyEncodingAsText(entry) ==
    IF entry.Encoding = "base64"
    THEN LET b == DecodeString(entry.Value) IN [value |-> b.bytes, err |-> b.err]
    ELSE [value |-> entry.Value, err |-> "nil"]

decodeEntryValue(entry) ==
    CASE entry.Encoding \in {"", "text"} -> [value |-> entry.Value, err |-> "nil"]
      [] entry.Encoding = "base64" ->
            LET b == DecodeString(entry.Value) IN [value |-> b.bytes, err |-> b.err]
      [] OTHER -> [value |-> <<>>, err |-> "unsupported encoding"]

dumpEntry(key, value, encoding, secret) ==
    [Key |-> key, Value |-> value, Encoding |-> encoding, Secret |-> secret]

objectLine(entry) == [text |-> "object", entry |-> entry]

otherLine(text) == [text |-> text, entry |-> dumpEntry(<<>>, <<>>, "", FALSE)]

\* The lines restore may meet: empty, white space, no JSON, an object without
\* key, with an unknown encoding, with text that is no base64, and three
\* entries that restore (text, base64, encoding left out).
InputLines ==
    { otherLine("empty"), otherLine("spaces"), otherLine("garbage"),
      objectLine(dumpEntry(<<>>, <<"v">>, "text", FALSE)),
      objectLine(dumpEntry(<<"k">>, <<"v">>, "hex", FALSE)),
      objectLine(dumpEntry(<<"k">>, <<"!">>, "base64", FALSE)),
      objectLine(dumpEntry(<<"a">>, <<"v">>, "text", FALSE)),
      objectLine(dumpEntry(<<"b">>, <<"b64", "BAD">>, "base64", TRUE)),
      objectLine(dumpEntry(<<"c">>, <<"v", "v">>, "", FALSE)) }

Inputs == UNION { [1..n -> InputLines] : n \in 0..MaxLines }

\* The command line of restore: the DB argument and --file.
RestoreCommands ==
    [args : { <<>>, << <<"w">> >>, << <<"@">> >> }, file : { <<>>, <<" ">>, <<"f">> }]

\* strings.TrimSpace(scanner.Text()) == ""
blankLine(line) == line.text \in {"empty", "spaces"}

\* json.Unmarshal of the line into a dumpEntry.
Unmarshal(line) ==
    IF line.text = "object" THEN [entry |-> line.entry, err |-> "nil"]
    ELSE [entry |-> dumpEntry(<<>>, <<>>, "", FALSE), err |-> "invalid character"]

\* fmt.Errorf("line %d: %w", lineNo, err)
lineError(n, msg) == "line " \o ToString(n) \o ": " \o msg

RestoreInit ==
    /\ pc = "restore"
    /\ probe = [sink |-> NoProbeSource, stdout |-> [err |-> TRUE, w |-> 0], cols |-> <<>>]
    /\ style = defaultTableStyle
    /\ columns = <<>>
    /\ maxContentWidths = <<>>
    /\ NothingComputed
    /\ cmd \in RestoreCommands
    /\ flags = zeroListArgs
    /\ ListUntouched
    /\ trans = zeroTransactionArgs
    /\ dbName = <<>>
    /\ input \in Inputs
    /\ lineNo = 0 /\ restored = 0 /\ wb = emptyBatch
    /\ stderr = <<>> /\ out = <<>>

\* Lines 22-55: the DB argument, the input, the database, the write batch.
restoreOpen ==
    /\ pc = "restore"
    /\ LET d == IF Len(cmd.args) = 1 THEN parseDB(cmd.args[1], FALSE)
                ELSE [db |-> <<"default">>, err |-> "nil"]
       IN  IF d.err # "nil"
           THEN /\ ret' = d.err
                /\ pc' = "done"
                /\ UNCHANGED <<dbName, txn, wb>>
           ELSE /\ dbName' = d.db
                /\ \/ /\ TrimSpace(cmd.file) # <<>>
                      /\ ret' = "open file failed"
                      /\ pc' = "done"
                      /\ UNCHANGED <<txn, wb>>
                   \/ /\ ret' = "open failed"
                      /\ pc' = "done"
                      /\ UNCHANGED <<txn, wb>>
                   \/ /\ txn' = [db |-> "open", tx |-> "none", err |-> "nil"]
                      /\ wb' = [state |-> "open", sets |-> <<>>, flushes |-> 0]
                      /\ pc' = "scan"
                      /\ UNCHANGED ret
    /\ UNCHANGED <<probe, style, columns, maxContentWidths, totalWidth, contentWidth, initial,
                   clamped, widths, remaining, configs, allowedRowLength, overhead,
                   cmd, flags, targetDB, store, cursor, tw, rendered, calls,
                   trans, input, lineNo, restored, stderr, out>>

\* The checks of lines 63-74 on one non-blank line: the error, or the Set to make.
parseLine(line) ==
    LET u == Unmarshal(line)
        v == decodeEntryValue(u.entry)
    IN  IF u.err # "nil" THEN [err |-> u.err, key |-> <<>>, value |-> <<>>]
        ELSE IF u.entry.Key = <<>> THEN [err |-> "missing key", key |-> <<>>, value |-> <<>>]
        ELSE IF v.err # "nil" THEN [err |-> v.err, key |-> <<>>, value |-> <<>>]
        ELSE [err |-> "nil", key |-> u.entry.Key, value |-> v.value]

\* Lines 57-81: one line of the scan; an error returns after the deferred
\* Cancel and Close.
restoreLine ==
    /\ pc = "scan"
    /\ lineNo < Len(input)
    /\ lineNo' = lineNo + 1
    /\ LET line == input[lineNo + 1]
           p == parseLine(line)
       IN  IF blankLine(line)
           THEN UNCHANGED <<restored, wb, txn, ret, pc>>
           ELSE IF p.err # "nil"
           THEN /\ ret' = lineError(lineNo + 1, p.err)
                /\ wb' = [wb EXCEPT !.state = "cancelled"]
                /\ txn' = [txn EXCEPT !.db = "closed"]
                /\ pc' = "done"
                /\ UNCHANGED restored
           ELSE \/ /\ wb' = [wb EXCEPT !.sets = Append(@, [key |-> p.key, value |-> p.value])]
                   /\ restored' = restored + 1
                   /\ UNCHANGED <<txn, ret, pc>>
                \/ /\ ret' = lineError(lineNo + 1, "set failed")
                   /\ wb' = [wb EXCEPT !.state = "cancelled"]
                   /\ txn' = [txn EXCEPT !.db = "closed"]
                   /\ pc' = "done"
                   /\ UNCHANGED restored
    /\ UNCHANGED <<probe, style, columns, maxContentWidths, totalWidth, contentWidth, initial,
                   clamped, widths, remaining, configs, allowedRowLength, overhead,
                   cmd, flags, targetDB, store, cursor, tw, rendered, calls,
                   trans, dbName, input, stderr, out>>

\* Lines 83-85: the scanner stopped on an error of its own.
restoreScanFailed ==
    /\ pc = "scan"
    /\ ret' = "scanner error"
    /\ wb' = [wb EXCEPT !.state = "cancelled"]
    /\ txn' = [txn EXCEPT !.db = "closed"]
    /\ pc' = "done"
    /\ UNCHANGED <<probe, style, columns, maxContentWidths, totalWidth, contentWidth, initial,
                   clamped, widths, remaining, configs, allowedRowLength, overhead,
                   cmd, flags, targetDB, store, cursor, tw, rendered, calls,
                   trans, dbName, input, lineNo, restored, stderr, out>>

\* Lines 87-92: the input is read: Flush, then the message.
restoreFlush ==
    /\ pc = "scan"
    /\ lineNo = Len(input)
    /\ \/ /\ wb' = [wb EXCEPT !.state = "cancelled", !.flushes = @ + 1]
          /\ ret' = "flush failed"
          /\ UNCHANGED stderr
       \/ /\ wb' = [wb EXCEPT !.state = "flushed", !.flushes = @ + 1]
          /\ stderr' = Append(stderr, [restored |-> restored, db |-> <<"@">> \o dbName])
          /\ ret' = "nil"
    /\ txn' = [txn EXCEPT !.db = "closed"]
    /\ pc' = "done"
    /\ UNCHANGED <<probe, style, columns, maxContentWidths, totalWidth, contentWidth, initial,
                   clamped, widths, remaining, configs, allowedRowLength, overhead,
                   cmd, flags, targetDB, store, cursor, tw, rendered, calls,
                   trans, dbName, input, lineNo, restored, out>>

RestoreNext ==
    \/ restoreOpen
    \/ restoreLine
    \/ restoreScanFailed
    \/ restoreFlush

RestoreSpec == RestoreInit /\ [][RestoreNext]_vars

(***************************************************************************)
(* dump: the entries of a store as NDJSON lines                            *)
(***************************************************************************)
EncodingArguments == {"auto", "base64", "text", "hex"}

DumpCommands == [args : DBArguments, encoding : EncodingArguments, secret : BOOLEAN]

\* encodeBase64
encodeBase64(entry, v) ==
    [entry EXCEPT !.Value = EncodeToString(v), !.Encoding = "base64"]

\* encodeText
encodeText(entry, v) ==
    IF ~utf8Valid(v)
    THEN [entry |-> entry, err |-> "contains non-UTF8 data; use --encoding=auto or base64"]
    ELSE [entry |-> [entry EXCEPT !.Value = v, !.Encoding = "text"], err |-> "nil"]

\* Lines 80-98: the dumpEntry of an item under the encoding mode.
encodeEntry(mode, item) ==
    LET entry == dumpEntry(item.key, <<>>, "", isSecretMeta(item.meta))
    IN  CASE mode = "base64" -> [entry |-> encodeBase64(entry, item.value), err |-> "nil"]
          [] mode = "text" -> encodeText(entry, item.value)
          [] OTHER ->
                IF utf8Valid(item.value)
                THEN [entry |-> [entry EXCEPT !.Value = item.value, !.Encoding = "text"],
                      err |-> "nil"]
                ELSE [entry |-> encodeBase64(entry, item.value), err |-> "nil"]

\* The iteration that passes over no item.
skipsNothing(includeSecret, item) == FALSE

\* Line 76: isSecret && !includeSecret
skipsItem(includeSecret, item) == isSecretMeta(item.meta) /\ ~includeSecret

DumpInit ==
    /\ pc = "dump"
    /\ probe = [sink |-> NoProbeSource, stdout |-> [err |-> TRUE, w |-> 0], cols |-> <<>>]
    /\ style = defaultTableStyle
    /\ columns = <<>>
    /\ maxContentWidths = <<>>
    /\ NothingComputed
    /\ cmd \in DumpCommands
    /\ flags = zeroListArgs
    /\ ListIdle

\* Lines 28-66: the DB argument, --encoding, --secret, the TransactionArgs.
dumpParseArguments ==
    /\ pc = "dump"
    /\ LET t == resolveTargetDB(cmd.args)
       IN  IF t.err # "nil"
           THEN /\ ret' = t.err
                /\ pc' = "done"
                /\ UNCHANGED <<targetDB, trans>>
           ELSE IF cmd.encoding \notin {"auto", "base64", "text"}
           THEN /\ ret' = "unsupported encoding"
                /\ pc' = "done"
                /\ targetDB' = t.targetDB
                /\ UNCHANGED trans
           ELSE /\ targetDB' = t.targetDB
                /\ trans' = [key |-> t.targetDB, readonly |-> TRUE, sync |-> TRUE]
                /\ pc' = "transaction"
                /\ UNCHANGED ret
    /\ UNCHANGED <<probe, style, columns, maxContentWidths, totalWidth, contentWidth, initial,
                   clamped, widths, remaining, configs, allowedRowLength, overhead,
                   cmd, flags, txn, store, cursor, tw, rendered, calls,
                   dbName, input, lineNo, restored, wb, stderr, out>>

\* Lines 71-108: one item of the iteration: a secret entry is passed over
\* without --secret; a failed value read or encodeText ends transact and
\* Store.Transaction with the error; otherwise the line is written.
dumpItem ==
    /\ pc = "iterate"
    /\ iteratorValid(cursor, store)
    /\ LET item == store[cursor]
           e == encodeEntry(cmd.encoding, item)
       IN  IF skipsItem(cmd.secret, item)
           THEN /\ cursor' = cursor + 1
                /\ UNCHANGED <<txn, out, pc>>
           ELSE \/ /\ txn' = [db |-> "closed", tx |-> "discarded", err |-> "value read failed"]
                   /\ pc' = "returned"
                   /\ UNCHANGED <<cursor, out>>
                \/ IF e.err # "nil"
                   THEN /\ txn' = [db |-> "closed", tx |-> "discarded", err |-> e.err]
                        /\ pc' = "returned"
                        /\ UNCHANGED <<cursor, out>>
                   ELSE /\ out' = Append(out, e.entry)
                        /\ cursor' = cursor + 1
                        /\ UNCHANGED <<txn, pc>>
    /\ UNCHANGED <<probe, style, columns, maxContentWidths, totalWidth, contentWidth, initial,
                   clamped, widths, remaining, configs, allowedRowLength, overhead,
                   cmd, flags, targetDB, store, tw, rendered, calls, ret,
                   trans, dbName, input, lineNo, restored, wb, stderr>>

\* Line 113: dump returns what Store.Transaction returned.
dumpReturn ==
    /\ pc = "returned"
    /\ ret' = txn.err
    /\ pc' = "done"
    /\ UNCHANGED <<ioVars, probe, style, columns, maxContentWidths, totalWidth, contentWidth, initial,
                   clamped, widths, remaining, configs, allowedRowLength, overhead,
                   cmd, flags, targetDB, txn, store, cursor, tw, rendered, calls>>

DumpNext ==
    \/ dumpParseArguments
    \/ transactionBegin
    \/ dumpItem
    \/ transactionEnd
    \/ dumpReturn

DumpSpec == DumpInit /\ [][DumpNext]_vars

(***************************************************************************)
(* What the specification says of the allocator, stated apart from the     *)
(* code: the weight table in quarters, a column's proportional floor, and  *)
(* its share of a round-robin remainder.                                   *)
(***************************************************************************)
HasTTLColumn(cols) == \E i \in 1..Len(cols) : cols[i] = columnTTL

WeightQuarters(cols, i) ==
    IF cols[i] = columnValue THEN (IF HasTTLColumn(cols) THEN 2 ELSE 3) ELSE 1

RECURSIVE WeightSumUpTo(_, _)
WeightSumUpTo(cols, n) ==
    IF n = 0 THEN 0 ELSE WeightQuarters(cols, n) + WeightSumUpTo(cols, n - 1)

ProportionalFloor(cols, i, cw) ==
    (WeightQuarters(cols, i) * cw) \div WeightSumUpTo(cols, Len(cols))

RECURSIVE FloorTotalUpTo(_, _, _)
FloorTotalUpTo(cols, n, cw) ==
    IF n = 0 THEN 0 ELSE ProportionalFloor(cols, n, cw) + FloorTotalUpTo(cols, n - 1, cw)

RECURSIVE RaisedFloorTotalUpTo(_, _, _)
RaisedFloorTotalUpTo(cols, n, cw) ==
    IF n = 0 THEN 0
    ELSE Max(ProportionalFloor(cols, n, cw), 10) + RaisedFloorTotalUpTo(cols, n - 1, cw)

RaisedFloorTotal(cols, cw) == RaisedFloorTotalUpTo(cols, Len(cols), cw)

AllFloorsAtLeastMinimum(cols, cw) ==
    \A i \in 1..Len(cols) : ProportionalFloor(cols, i, cw) >= 10

\* Column i's share of rem characters handed out to n columns in index order.
RoundRobinShare(i, n, rem) == Cardinality({ k \in 0..(rem - 1) : k % n = i - 1 })

Applied == pc = "applied"

Cols == 1..Len(columns)

(***************************************************************************)
(* C1: every column with a positive content cap C ends                     *)
(* applyColumnConstraints (clamp and redistribution) with a final width of *)
(* at most C.                                                              *)
(***************************************************************************)
C1_CapNeverExceeded ==
    Applied => \A i \in Cols : maxContentWidths[i] > 0 => widths[i] <= maxContentWidths[i]

\* A column capped strictly below its proportional share, with freed budget
\* handed to another column.
C1_Witness ==
    /\ Applied
    /\ \E i \in Cols :
          /\ maxContentWidths[i] > 0
          /\ maxContentWidths[i] < ProportionalFloor(columns, i, contentWidth)
          /\ widths[i] = maxContentWidths[i]
    /\ \E j \in Cols : widths[j] > clamped[j]

(***************************************************************************)
(* C2 as stated: for every content width >= the column count the widths    *)
(* returned by distributeWidths sum to exactly the content width.          *)
(***************************************************************************)
C2_SumIsContentWidth == Applied => SumSeq(initial) = contentWidth

(***************************************************************************)
(* C2 amended: the widths returned by distributeWidths sum to exactly the  *)
(* larger of the content width and the total of the proportional floors    *)
(* raised to the 10-character minimum; so they sum to the content width    *)
(* whenever no floor is below 10.                                          *)
(***************************************************************************)
C2_SumIsContentWidthOrRaisedFloors ==
    Applied =>
        /\ SumSeq(initial) = Max(contentWidth, RaisedFloorTotal(columns, contentWidth))
        /\ AllFloorsAtLeastMinimum(columns, contentWidth) => SumSeq(initial) = contentWidth

\* A rounding remainder was handed out and the sum is the content width.
C2_Witness ==
    /\ Applied
    /\ Len(columns) > 1
    /\ AllFloorsAtLeastMinimum(columns, contentWidth)
    /\ FloorTotalUpTo(columns, Len(columns), contentWidth) < contentWidth
    /\ SumSeq(initial) = contentWidth

(***************************************************************************)
(* C3 as stated: the final WidthPlan sums to at most the available content *)
(* width, for every terminal width, column set and ContentWidths.          *)
(***************************************************************************)
C3_PlanWithinContentWidth == Applied => SumSeq(widths) <= contentWidth

(***************************************************************************)
(* C3 amended: the final WidthPlan sums to at most the larger of the       *)
(* content width and the total of the proportional floors raised to the    *)
(* 10-character minimum; so it stays within the content width whenever no  *)
(* floor is below 10, and whenever the clamped allocation does.            *)
(***************************************************************************)
C3_PlanWithinContentWidthOrRaisedFloors ==
    Applied =>
        /\ SumSeq(widths) <= Max(contentWidth, RaisedFloorTotal(columns, contentWidth))
        /\ AllFloorsAtLeastMinimum(columns, contentWidth) => SumSeq(widths) <= contentWidth
        /\ SumSeq(clamped) <= contentWidth => SumSeq(widths) <= contentWidth

\* Capping freed budget and redistribution used all of it.
C3_Witness ==
    /\ Applied
    /\ SumSeq(clamped) < contentWidth
    /\ SumSeq(widths) = contentWidth
    /\ \E i, j \in Cols : i # j /\ widths[i] > clamped[i] /\ widths[j] > clamped[j]

(***************************************************************************)
(* C4: every final width is at least 1, and at least 10 for every column   *)
(* whose content cap is unknown (0) or at least 10; only a column with a   *)
(* positive cap below 10 may end below 10.                                 *)
(***************************************************************************)
C4_MinimumWidths ==
    Applied =>
        \A i \in Cols :
            /\ widths[i] >= 1
            /\ (maxContentWidths[i] = 0 \/ maxContentWidths[i] >= 10) => widths[i] >= 10
            /\ widths[i] < 10 => maxContentWidths[i] \in 1..9

\* A content width too small for 10 per column: one column capped below 10,
\* another without a cap kept at 10 or more.
C4_Witness ==
    /\ Applied
    /\ contentWidth < 10 * Len(columns)
    /\ \E i, j \in Cols :
          /\ maxContentWidths[i] \in 1..9 /\ widths[i] = maxContentWidths[i]
          /\ maxContentWidths[j] = 0 /\ widths[j] >= 10

(***************************************************************************)
(* C6 (scenario A): columns [Key, Value], content width 100, Value capped  *)
(* at 40, Key without a cap: the allocator yields [25, 75] and the final   *)
(* plan is [60, 40].                                                       *)
(***************************************************************************)
ScenarioA ==
    /\ Applied
    /\ columns = <<columnKey, columnValue>>
    /\ contentWidth = 100
    /\ maxContentWidths = <<0, 40>>

C6_ScenarioA == ScenarioA => initial = <<25, 75>> /\ widths = <<60, 40>>

C6_Witness == ScenarioA /\ widths[1] - clamped[1] = 35

(***************************************************************************)
(* C7 (scenario B): distributeWidths with [Key, Value, TTL] and content    *)
(* width 40 returns [10, 20, 10], summing to exactly 40.                   *)
(***************************************************************************)
ScenarioB ==
    /\ Applied
    /\ columns = <<columnKey, columnValue, columnTTL>>
    /\ contentWidth = 40

C7_ScenarioB == ScenarioB => initial = <<10, 20, 10>> /\ SumSeq(initial) = 40

C7_Witness == ScenarioB /\ Len(initial) = 3

(***************************************************************************)
(* C8: with weights Key = 1/4, TTL = 1/4, Value = 3/4 without a TTL column *)
(* and 1/2 with one, normalised by their sum: whenever no column's share   *)
(* falls below 10, column i receives floor(w_i / sum(w) * content width)   *)
(* plus its round-robin share of the rounding remainder.                   *)
(***************************************************************************)
C8_WeightedShares ==
    (Applied /\ AllFloorsAtLeastMinimum(columns, contentWidth)) =>
        LET rem == contentWidth - FloorTotalUpTo(columns, Len(columns), contentWidth)
        IN  \A i \in Cols :
                initial[i] = ProportionalFloor(columns, i, contentWidth)
                                + RoundRobinShare(i, Len(columns), rem)

\* Value beside a TTL column, and a remainder of two characters.
C8_Witness ==
    /\ Applied
    /\ columns = <<columnKey, columnValue, columnTTL>>
    /\ AllFloorsAtLeastMinimum(columns, contentWidth)
    /\ contentWidth - FloorTotalUpTo(columns, 3, contentWidth) = 2
    /\ initial[2] = ProportionalFloor(columns, 2, contentWidth) + 1

(***************************************************************************)
(* C5: the redistribution loop terminates for every input: it stops when   *)
(* remaining reaches zero or after a pass that increments no column; every *)
(* pass that keeps the loop going has widened a column; and when every     *)
(* column sits at its positive cap while remaining is positive, the widths *)
(* are left unchanged.                                                     *)
(***************************************************************************)
EveryColumnAtCap(w) ==
    \A i \in Cols : maxContentWidths[i] > 0 /\ w[i] = maxContentWidths[i]

C5_LoopTerminates ==
    /\ <>(pc = "applied")
    /\ [](pc \in {"configure", "applied"} => (remaining <= 0 \/ EveryColumnAtCap(widths)))
    /\ []((pc = "applied" /\ EveryColumnAtCap(clamped)) => widths = clamped)
    /\ [][(pc = "loop" /\ pc' = "loop") =>
            (SumSeq(widths') > SumSeq(widths) /\ remaining' < remaining)]_vars

\* The loop was left by the progress check: budget remains, no column can take it.
C5_Witness ==
    /\ pc = "applied"
    /\ remaining > 0
    /\ Len(columns) > 1
    /\ EveryColumnAtCap(clamped)
    /\ widths = clamped

(***************************************************************************)
(* C9: the terminal width used is always positive and is the first         *)
(* positive value among (a) the sink's window size, (b) standard output's  *)
(* window size, (c) COLUMNS when it parses to a positive integer, (d) 100; *)
(* COLUMNS counts only when both queries yield nothing, and with every     *)
(* source unavailable the WidthPlan is that of an explicit width of 100.   *)
(***************************************************************************)
SinkWidth == IF probe.sink.isFd /\ ~probe.sink.err THEN probe.sink.w ELSE 0

StdoutWidth == IF probe.stdout.err THEN 0 ELSE probe.stdout.w

ColumnsWidth == (CHOOSE c \in ColumnsCases : c.text = probe.cols).value

FirstPositive(candidates) ==
    candidates[CHOOSE i \in 1..Len(candidates) :
                  /\ candidates[i] > 0
                  /\ \A j \in 1..(i - 1) : ~(candidates[j] > 0)]

C9_TerminalWidth ==
    Applied =>
        /\ totalWidth \in Nat \ {0}
        /\ totalWidth = FirstPositive(<<SinkWidth, StdoutWidth, ColumnsWidth, 100>>)
        /\ (SinkWidth > 0 \/ StdoutWidth > 0) =>
               totalWidth = FirstPositive(<<SinkWidth, StdoutWidth>>)
        /\ (SinkWidth <= 0 /\ StdoutWidth <= 0 /\ ColumnsWidth <= 0) =>
               widths = constrainedWidths(TerminalOfWidth(100), style, columns,
                                          maxContentWidths).widths

\* Standard output answers while the sink does not and COLUMNS is set.
C9_Witness ==
    /\ Applied
    /\ SinkWidth = 0 /\ StdoutWidth = 40 /\ ColumnsWidth = 80
    /\ totalWidth = 40

(***************************************************************************)
(* C10: for n >= 1 columns tableRowOverhead is (width of left + right      *)
(* padding) * n, plus (n - 1) * (widest separator glyph) only when the     *)
(* style separates columns and n > 1, plus (left + right border width)     *)
(* only when the style draws a border; nothing else.                       *)
(***************************************************************************)
\* Display width: one per glyph that is no escape sequence, one more per wide glyph.
DisplayWidth(str) ==
    Cardinality({ i \in 1..Len(str) : str[i] # "ESC" })
        + Cardinality({ i \in 1..Len(str) : str[i] = "W" })

SeparatorWidths ==
    { DisplayWidth(g) :
        g \in {style.Box.MiddleSeparator, style.Box.EmptySeparator,
               style.Box.MiddleHorizontal, style.Box.TopSeparator,
               style.Box.BottomSeparator, style.Box.MiddleVertical,
               style.Box.LeftSeparator, style.Box.RightSeparator} }

WidestSeparator == CHOOSE m \in SeparatorWidths : \A x \in SeparatorWidths : m >= x

C10_OverheadFormula ==
    pc = "measured" =>
        LET n == Len(columns)
            padding == (DisplayWidth(style.Box.PaddingLeft)
                           + DisplayWidth(style.Box.PaddingRight)) * n
            separator == IF style.Options.SeparateColumns /\ n > 1
                         THEN (n - 1) * WidestSeparator ELSE 0
            border == IF style.Options.DrawBorder
                      THEN DisplayWidth(style.Box.Left) + DisplayWidth(style.Box.Right)
                      ELSE 0
        IN  overhead = padding + separator + border

\* Three columns, separators and border drawn, the widest separator glyph in
\* the last role only.
C10_Witness ==
    /\ pc = "measured"
    /\ Len(columns) = 3
    /\ style.Options.SeparateColumns /\ style.Options.DrawBorder
    /\ DisplayWidth(style.Box.RightSeparator) = 3
    /\ DisplayWidth(style.Box.PaddingLeft \o style.Box.PaddingRight) = 3
    /\ DisplayWidth(style.Box.Left \o style.Box.Right) = 3
    /\ overhead = 9 + 6 + 3

(***************************************************************************)
(* C11: contentWidthForStyle returns max(total width - overhead, column    *)
(* count) for every total width and style with at least one column, so the *)
(* content width is never below one character per column even when the     *)
(* overhead exceeds the terminal width.                                    *)
(***************************************************************************)
C11_ContentWidthFloored ==
    pc = "measured" =>
        /\ contentWidth = Max(totalWidth - overhead, Len(columns))
        /\ contentWidth >= Len(columns)

\* The overhead exceeds the terminal width and the floor applies.
C11_Witness ==
    /\ pc = "measured"
    /\ Len(columns) = 3
    /\ overhead > totalWidth
    /\ contentWidth = 3

(***************************************************************************)
(* C18: leftover characters go out one at a time in column index order,    *)
(* from the leftmost column on each pass, in distributeWidths and in the   *)
(* redistribution: of two columns that are never skipped (no known cap)    *)
(* the lower-index one receives as many characters as the other or one     *)
(* more.                                                                   *)
(***************************************************************************)
RaisedFloor(i) == Max(ProportionalFloor(columns, i, contentWidth), 10)

C18_RoundRobinInIndexOrder ==
    Applied =>
        \A i, j \in Cols :
            i < j =>
                /\ (initial[i] - RaisedFloor(i)) - (initial[j] - RaisedFloor(j)) \in {0, 1}
                /\ (maxContentWidths[i] = 0 /\ maxContentWidths[j] = 0) =>
                       (widths[i] - clamped[i]) - (widths[j] - clamped[j]) \in {0, 1}

\* Two uncapped columns share freed budget over several passes, the left one
\* taking the odd character.
C18_Witness ==
    /\ Applied
    /\ Len(columns) = 3
    /\ maxContentWidths[1] = 0 /\ maxContentWidths[3] = 0
    /\ widths[3] - clamped[3] >= 2
    /\ widths[1] - clamped[1] = (widths[3] - clamped[3]) + 1

(***************************************************************************)
(* C20: when every ContentWidths entry is 0 the cap-and-redistribute pass  *)
(* changes nothing: the final WidthPlan is the allocator's output.         *)
(***************************************************************************)
NoCapKnown == \A i \in Cols : maxContentWidths[i] = 0

C20_NoCapsKeepAllocation ==
    (Applied /\ NoCapKnown) => (widths = initial /\ clamped = initial)

C20_Witness ==
    /\ Applied
    /\ NoCapKnown
    /\ Len(columns) = 3
    /\ widths = initial
    /\ SumSeq(widths) = contentWidth

(***************************************************************************)
(* C19: for each of the eight combinations of the key, value and ttl       *)
(* selections requireColumns returns exactly the selected kinds, as a      *)
(* subsequence of [Key, Value, TTL] (never reordered, never duplicated),   *)
(* and returns an error instead of an empty ColumnSet when none is         *)
(* selected.                                                               *)
(***************************************************************************)
CanonicalOrder == <<columnKey, columnValue, columnTTL>>

SelectedKinds ==
    { CanonicalOrder[i] : i \in { j \in 1..3 : <<flags.key, flags.value, flags.ttl>>[j] } }

PositionIn(order, kind) == CHOOSE i \in 1..Len(order) : order[i] = kind

C19_SelectedKindsInOrder ==
    pc = "required" =>
        IF SelectedKinds = {}
        THEN ret # "nil" /\ columns = <<>>
        ELSE /\ ret = "nil"
             /\ { columns[i] : i \in Cols } = SelectedKinds
             /\ Len(columns) = Cardinality(SelectedKinds)
             /\ \A i, j \in Cols :
                    i < j => PositionIn(CanonicalOrder, columns[i])
                                 < PositionIn(CanonicalOrder, columns[j])

\* Key and TTL selected without the value: both returned, Key first.
C19_Witness ==
    /\ pc = "required"
    /\ flags.key /\ ~flags.value /\ flags.ttl
    /\ columns = <<columnKey, columnTTL>>
    /\ ret = "nil"

(***************************************************************************)
(* What the specification says of a list run, stated apart from the code   *)
(***************************************************************************)
PlainFormatNames == {"csv", "html", "markdown", "md"}

TableFormatNames == {"table", "tabular", "table-dark", "table-bright", "auto"}

LimitColumns == flags.format.limitColumns

Succeeded == pc = "done" /\ ret = "nil"

\* The width of the line of cell that starts at position a.
LineWidthFrom(cell, a) ==
    LET inLine == { k \in a..Len(cell) : \A j \in a..k : cell[j] # "NL" }
    IN  Cardinality({ k \in inLine : cell[k] # "ESC" })
            + Cardinality({ k \in inLine : cell[k] = "W" })

LongestLineWidth(cell) ==
    LET starts == {1} \cup { k + 1 : k \in { j \in 1..Len(cell) : cell[j] = "NL" } }
        found  == { LineWidthFrom(cell, a) : a \in starts }
    IN  CHOOSE m \in found : \A x \in found : x <= m

\* The cells appended to the table writer so far in column i.
CellsSeen(i) ==
    { tw.header[r][i] : r \in 1..Len(tw.header) } \cup { tw.rows[r][i] : r \in 1..Len(tw.rows) }

WidestCellSeen(i) ==
    LET found == {0} \cup { LongestLineWidth(c) : c \in CellsSeen(i) }
    IN  CHOOSE m \in found : \A x \in found : x <= m

AllAppended ==
    /\ Len(tw.header) = (IF flags.header THEN 1 ELSE 0)
    /\ Len(tw.rows) = Len(store)
    /\ flags.key => \A r \in 1..Len(store) : tw.rows[r][1] = store[r].key

AllFolded == \A i \in Cols : maxContentWidths[i] = WidestCellSeen(i)

(***************************************************************************)
(* C12: in every execution of list whose format is csv, html, markdown or  *)
(* md the layout engine is never entered: applyColumnConstraints is not    *)
(* called, ContentWidths is never allocated or updated, and no column      *)
(* width limit or allowed row length is set before rendering; only the     *)
(* table formats (table, tabular, table-dark, table-bright, auto) invoke   *)
(* it.                                                                     *)
(***************************************************************************)
C12_PlainFormatsBypassLayout ==
    /\ cmd.format \in PlainFormatNames =>
           /\ calls = [apply |-> 0, update |-> 0]
           /\ maxContentWidths = <<>>
           /\ widths = <<>> /\ configs = <<>> /\ allowedRowLength = 0
    /\ calls.apply > 0 => cmd.format \in TableFormatNames
    /\ (Succeeded /\ cmd.format \in TableFormatNames) => calls.apply = 1

\* A csv run rendered two rows, one of them wider than the terminal allows.
C12_Witness ==
    /\ Succeeded
    /\ cmd.format = "csv"
    /\ rendered = <<"RenderCSV">>
    /\ Len(tw.rows) = 2
    /\ \E r \in 1..2 : \E i \in Cols : LongestLineWidth(tw.rows[r][i]) > 40
    /\ maxContentWidths = <<>>

(***************************************************************************)
(* C13: in every successful list execution with a table format,            *)
(* applyColumnConstraints runs exactly once, after the header and every    *)
(* row of the iteration have been appended to the table writer and folded  *)
(* into ContentWidths, and before the single render call; no row is        *)
(* appended after the WidthPlan is applied.                                *)
(***************************************************************************)
C13_ConstraintsOnceBeforeRender ==
    /\ []((Succeeded /\ LimitColumns) =>
            calls.apply = 1 /\ Len(rendered) = 1 /\ AllAppended /\ AllFolded)
    /\ [][calls.apply' # calls.apply =>
            /\ calls.apply = 0 /\ calls.apply' = 1
            /\ rendered = <<>>
            /\ AllAppended /\ AllFolded]_vars
    /\ [][calls.apply >= 1 =>
            tw' = tw /\ maxContentWidths' = maxContentWidths /\ widths' = widths]_vars
    /\ [][(rendered' # rendered /\ LimitColumns) =>
            calls.apply = 1 /\ rendered = <<>> /\ configs = columnConfigs(widths)]_vars

\* Header and two rows, constrained once and rendered once.
C13_Witness ==
    /\ Succeeded /\ LimitColumns
    /\ Len(tw.header) = 1 /\ Len(tw.rows) = 2 /\ Len(store) = 2
    /\ calls.apply = 1
    /\ rendered = <<"Render">>

(***************************************************************************)
(* C14: if the storage transaction fails while rows are being read (open,  *)
(* sync, or a value read on any row), list returns that error without ever *)
(* calling applyColumnConstraints or any render method, so nothing of the  *)
(* partially accumulated rows or ContentWidths is emitted.                 *)
(***************************************************************************)
C14_FailedTransactionRendersNothing ==
    txn.err # "nil" =>
        /\ pc \in {"returned", "done"}
        /\ pc = "done" => ret = txn.err
        /\ calls.apply = 0
        /\ rendered = <<>>
        /\ widths = <<>> /\ configs = <<>> /\ allowedRowLength = 0

\* The value read of the second row failed after the first row was folded in.
C14_Witness ==
    /\ pc = "done"
    /\ ret = "value read failed"
    /\ LimitColumns
    /\ Len(tw.rows) = 1 /\ cursor = 2
    /\ \E i \in Cols : maxContentWidths[i] > 0
    /\ rendered = <<>> /\ calls.apply = 0

(***************************************************************************)
(* C15 as stated: when keys and values are both suppressed and TTL is not  *)
(* requested, list returns a 'no columns selected' error before creating   *)
(* the table, opening any transaction, computing any width or rendering;   *)
(* for every other flag combination the column check succeeds, so the      *)
(* layout engine is never entered with an empty ColumnSet.                 *)
(***************************************************************************)
NoneSelected == cmd.noKeys /\ cmd.noValues /\ ~cmd.ttl

NoColumnsErrors ==
    { "no columns selected; disable --no-keys/--no-values or pass --ttl",
      "no columns selected; enable key, value, or ttl output" }

NothingStarted ==
    /\ ~tw.created /\ columns = <<>>
    /\ txn = noTransaction /\ store = <<>>
    /\ maxContentWidths = <<>> /\ widths = <<>> /\ configs = <<>>
    /\ calls = [apply |-> 0, update |-> 0]
    /\ rendered = <<>>

OtherCombinationsPass ==
    /\ (~NoneSelected /\ pc = "done") => ret \notin NoColumnsErrors
    /\ (tw.created \/ calls.apply > 0) => (~NoneSelected /\ columns # <<>>)

C15_NoColumnsError ==
    /\ (NoneSelected /\ pc # "list") =>
           pc = "done" /\ ret \in NoColumnsErrors /\ NothingStarted
    /\ OtherCombinationsPass

(***************************************************************************)
(* C15, amended: with no column selected list returns an error before      *)
(* creating the table, opening any transaction, computing any width or     *)
(* rendering, and that error is the 'no columns selected' error whenever   *)
(* the DB argument resolves and the format name is supported (the error of *)
(* the DB argument or of the format is returned first otherwise); for      *)
(* every other flag combination the column check succeeds, so the layout   *)
(* engine is never entered with an empty ColumnSet.                        *)
(***************************************************************************)
ArgumentsResolve ==
    /\ cmd.args \in { <<>>, << <<"w">> >>, << <<"@", "W">> >> }
    /\ cmd.format \in PlainFormatNames \cup TableFormatNames

C15_ErrorBeforeAnyLayout ==
    /\ (NoneSelected /\ pc # "list") =>
           /\ pc = "done" /\ ret \notin {"nil", "running"} /\ NothingStarted
           /\ ArgumentsResolve => ret \in NoColumnsErrors
    /\ OtherCombinationsPass

\* No column selected on an existing store with a supported format.
C15_Witness ==
    /\ NoneSelected
    /\ cmd.args = << <<"w">> >> /\ cmd.format = "table"
    /\ pc = "done"
    /\ ret = "no columns selected; disable --no-keys/--no-values or pass --ttl"
    /\ NothingStarted

(***************************************************************************)
(* C16: after any sequence of updateMaxContentWidths calls (the header,    *)
(* when emitted, then each row), ContentWidths keeps the length of the     *)
(* ColumnSet, no entry ever decreases from one call to the next, and entry *)
(* i equals the maximum longest-line width over every cell seen so far in  *)
(* column i.                                                               *)
(***************************************************************************)
C16_ContentWidthsAreRunningMaxima ==
    /\ []((tw.created /\ LimitColumns) =>
            /\ Len(maxContentWidths) = Len(columns)
            /\ calls.update = Len(tw.header) + Len(tw.rows)
            /\ AllFolded)
    /\ [][\A i \in DOMAIN maxContentWidths :
            i \in DOMAIN maxContentWidths' /\ maxContentWidths'[i] >= maxContentWidths[i]]_vars

\* Header and two rows seen; the widest value cell is a line of a two-line
\* cell, and the header is the widest cell of the key column.
C16_Witness ==
    /\ LimitColumns /\ flags.header
    /\ columns = <<columnKey, columnValue>>
    /\ calls.update = 3
    /\ tw.rows[1][2] = <<"x", "x", "NL", "x", "x", "x">>
    /\ maxContentWidths = <<3, 10>>

(***************************************************************************)
(* C17: the final ContentWidths, and therefore the final WidthPlan, does   *)
(* not depend on the order in which rows are processed: feeding any        *)
(* permutation of the same rows through updateMaxContentWidths gives the   *)
(* same ContentWidths and the same plan.                                   *)
(***************************************************************************)
RowOrders(n) == { f \in [1..n -> 1..n] : \A a, b \in 1..n : f[a] = f[b] => a = b }

C17_RowOrderIrrelevant ==
    (tw.created /\ LimitColumns) =>
        \A f \in RowOrders(Len(tw.rows)) :
            LET start == foldRows([i \in Cols |-> 0], tw.header)
                other == foldRows(start, [r \in 1..Len(tw.rows) |-> tw.rows[f[r]]])
            IN  /\ other = maxContentWidths
                /\ calls.apply = 1 =>
                       constrainedWidths(probe, style, columns, other).widths = widths

\* Two rows, each the wider one in some column, and the plan applied.
C17_Witness ==
    /\ Succeeded /\ LimitColumns
    /\ calls.apply = 1
    /\ Len(tw.rows) = 2
    /\ \E i, j \in Cols :
          /\ LongestLineWidth(tw.rows[1][i]) > LongestLineWidth(tw.rows[2][i])
          /\ LongestLineWidth(tw.rows[1][j]) < LongestLineWidth(tw.rows[2][j])

(***************************************************************************)
(* C21: when every column has a positive content cap and the caps sum to   *)
(* no more than the content width, the final WidthPlan equals the caps     *)
(* exactly: no column is widened beyond its observed content and the       *)
(* leftover width stays unused.                                            *)
(***************************************************************************)
EveryColumnCapped == \A i \in Cols : maxContentWidths[i] > 0

C21_PlanEqualsCaps ==
    (Applied /\ EveryColumnCapped /\ SumSeq(maxContentWidths) <= contentWidth) =>
        /\ widths = maxContentWidths
        /\ remaining = contentWidth - SumSeq(maxContentWidths)

\* Three capped columns, one cap above its proportional width, width left over.
C21_Witness ==
    /\ Applied /\ EveryColumnCapped
    /\ Len(columns) = 3
    /\ SumSeq(maxContentWidths) < contentWidth
    /\ \E i \in Cols : initial[i] < maxContentWidths[i]
    /\ \E i \in Cols : initial[i] > maxContentWidths[i]
    /\ widths = maxContentWidths
    /\ remaining > 0

(***************************************************************************)
(* C24: the budget is used as fully as possible: whenever the widths after *)
(* clamping sum to no more than the content width, the redistribution ends *)
(* with the final widths summing to exactly the content width, or with     *)
(* every column holding a positive cap and sitting exactly at it; with at  *)
(* least one column of unknown cap the final widths sum to exactly the     *)
(* content width.                                                          *)
(***************************************************************************)
C24_BudgetUsedFully ==
    (Applied /\ SumSeq(clamped) <= contentWidth) =>
        /\ \/ SumSeq(widths) = contentWidth
           \/ \A i \in Cols : maxContentWidths[i] > 0 /\ widths[i] = maxContentWidths[i]
        /\ (\E i \in Cols : maxContentWidths[i] = 0) => SumSeq(widths) = contentWidth

\* A capped column frees width that an uncapped column takes over several passes.
C24_Witness ==
    /\ Applied
    /\ SumSeq(clamped) < contentWidth
    /\ \E i, j \in Cols :
          /\ maxContentWidths[i] > 0 /\ widths[i] = maxContentWidths[i]
          /\ maxContentWidths[j] = 0 /\ widths[j] >= clamped[j] + 2
    /\ SumSeq(widths) = contentWidth

(***************************************************************************)
(* C25: every width returned by distributeWidths is at least 10 for every  *)
(* content width and column set: a column whose proportional floor is      *)
(* below 10 is raised to 10, the minimum winning over the proportional     *)
(* share even when that makes the allocation exceed the content width.     *)
(***************************************************************************)
C25_MinimumWinsOverShare ==
    Applied =>
        \A i \in Cols :
            /\ initial[i] >= 10
            /\ ProportionalFloor(columns, i, contentWidth) < 10 =>
                   initial[i] = 10 + RoundRobinShare(i, Len(columns),
                                        contentWidth - RaisedFloorTotal(columns, contentWidth))

\* Three columns on a content width below 10: each is given 10.
C25_Witness ==
    /\ Applied
    /\ Len(columns) = 3
    /\ contentWidth < 10
    /\ initial = <<10, 10, 10>>
    /\ SumSeq(initial) > contentWidth

(***************************************************************************)
(* C26: the table fits the allowed row length whenever the terminal is     *)
(* wide enough: if terminal width minus overhead is at least the column    *)
(* count and every column's proportional floor is at least 10, then for    *)
(* all ContentWidths the final widths plus the style overhead sum to at    *)
(* most the terminal width passed to SetAllowedRowLength.                  *)
(***************************************************************************)
StyleOverhead == tableRowOverhead(style, Len(columns))

C26_TableFitsRowLength ==
    (/\ Applied
     /\ totalWidth - StyleOverhead >= Len(columns)
     /\ AllFloorsAtLeastMinimum(columns, contentWidth)) =>
        SumSeq(widths) + StyleOverhead <= allowedRowLength

\* A bordered three-column table filling its terminal exactly.
C26_Witness ==
    /\ Applied
    /\ Len(columns) = 3
    /\ StyleOverhead > 0
    /\ AllFloorsAtLeastMinimum(columns, contentWidth)
    /\ \E i \in Cols : maxContentWidths[i] = 0
    /\ SumSeq(widths) + StyleOverhead = allowedRowLength

(***************************************************************************)
(* C22: applyColumnConstraints emits exactly one column configuration per  *)
(* column of the ColumnSet, numbered 1..n in ColumnSet order, each with    *)
(* its plan width as maximum width and the soft-wrap enforcer, and sets    *)
(* the allowed total row length to the terminal width (probed or the       *)
(* default 100), not to the reduced content width.                         *)
(***************************************************************************)
C22_ConfigsAndRowLength ==
    Applied =>
        /\ Len(configs) = Len(columns)
        /\ \A i \in Cols :
              /\ configs[i].Number = i
              /\ configs[i].WidthMax = widths[i]
              /\ configs[i].WidthMaxEnforcer = "text.WrapText"
        /\ allowedRowLength = FirstPositive(<<SinkWidth, StdoutWidth, ColumnsWidth, 100>>)
        /\ StyleOverhead > 0 => allowedRowLength > contentWidth

\* No source answers: the row length is the default 100, above the content width.
C22_Witness ==
    /\ Applied
    /\ SinkWidth = 0 /\ StdoutWidth = 0 /\ ColumnsWidth = 0
    /\ Len(configs) = 3
    /\ allowedRowLength = 100
    /\ contentWidth < 100

MarkedSecret(item) == item.meta % 2 = 1

\* Other values a secret entry could hold: nothing, and a long line.
OtherValues == { <<>>, [i \in 1..50 |-> "x"] }

\* The rows list can build for the item, each with the value it would read.
RowsFor(item) ==
    { rowCells(flags, columns, item,
               IF readsValue(flags, item)
               THEN formatBytes(flags.binary, item.value, stdoutIsTerminal(probe))
               ELSE <<>>,
               now) : now \in ClockReadings }

C27_SecretValuesNeverShown ==
    (tw.created /\ ~flags.secrets) =>
        /\ \A r \in 1..Len(tw.rows) :
              MarkedSecret(store[r]) =>
                  /\ \A i \in Cols :
                        columns[i] = columnValue => tw.rows[r][i] = [k \in 1..10 |-> "x"]
                  /\ \A v \in OtherValues :
                        tw.rows[r] \in RowsFor([store[r] EXCEPT !.value = v])
        /\ txn.err = "value read failed" => ~MarkedSecret(store[cursor])
        /\ LimitColumns => AllFolded
        /\ calls.apply = 1 =>
               widths = constrainedWidths(probe, style, columns, maxContentWidths).widths

\* A table run over a secret entry: its value cell is the placeholder, which
\* is the widest value seen.
C27_Witness ==
    /\ Succeeded /\ LimitColumns /\ ~flags.secrets /\ ~flags.header
    /\ columns = <<columnKey, columnValue>>
    /\ Len(store) = 2 /\ MarkedSecret(store[2])
    /\ tw.rows[2][2] = [k \in 1..10 |-> "x"]
    /\ maxContentWidths[2] = 10
    /\ calls.apply = 1

(***************************************************************************)
(* C28: Store.Transaction commits only when the transaction is not         *)
(* read-only and the transact callback returned no error; a read-only      *)
(* transaction and a transaction whose callback failed never commit, and   *)
(* once the database has been opened it is closed on every return path     *)
(* (success, sync error, callback error, commit error).                    *)
(***************************************************************************)
CommitCalled == pc = "commit" \/ txn.tx \in {"committed", "commit failed"}

C28_CommitAndClose ==
    /\ CommitCalled => (~trans.readonly /\ txn.err # "transact failed")
    /\ (trans.readonly \/ txn.err = "transact failed") => ~CommitCalled
    /\ (pc = "returned" /\ ~trans.readonly /\ txn.tx # "none"
            /\ txn.err # "transact failed") => CommitCalled
    /\ pc = "returned" =>
           /\ ret = txn.err
           /\ txn.db \in {"none", "closed"}
           /\ txn.db = "none" => txn.err \in {"open failed", "bad key format, use KEY@DB"}
           /\ txn.err \in {"nil", "sync failed", "transact failed", "commit failed"} =>
                  txn.db = "closed"
           /\ txn.tx # "open"

\* A writing transaction whose Commit failed: the database is closed.
C28_Witness ==
    /\ pc = "returned"
    /\ ~trans.readonly /\ trans.sync
    /\ txn = [db |-> "closed", tx |-> "commit failed", err |-> "commit failed"]
    /\ ret = "commit failed"

(***************************************************************************)
(* C29: restore flushes the write batch only after every input line has    *)
(* been parsed and decoded successfully.  If any non-blank line is invalid *)
(* JSON, has an empty key, an unsupported encoding or undecodable base64,  *)
(* restore returns an error naming that line number, Flush is never        *)
(* called, and no 'Restored' message is printed; blank lines are skipped   *)
(* without counting as entries.                                            *)
(***************************************************************************)
BlankLines == { n \in 1..Len(input) : input[n].text \in {"empty", "spaces"} }

\* Lines that restore: an object with a key, as text or as decodable base64.
GoodLines ==
    { n \in 1..Len(input) :
        /\ input[n].text = "object"
        /\ input[n].entry.Key # <<>>
        /\ \/ input[n].entry.Encoding \in {"", "text"}
           \/ /\ input[n].entry.Encoding = "base64"
              /\ input[n].entry.Value = <<>> \/ Head(input[n].entry.Value) = "b64" }

BadLines == (1..Len(input)) \ (BlankLines \cup GoodLines)

FirstBadLine == CHOOSE n \in BadLines : \A k \in BadLines : n <= k

\* What restore returns when something other than a line's content fails.
FailuresBefore(n) ==
    { "open file failed", "open failed", "scanner error" }
        \cup { "line " \o ToString(k) \o ": set failed" : k \in GoodLines \cap 1..(n - 1) }

BadLineErrors(n) ==
    { "line " \o ToString(n) \o ": " \o msg :
        msg \in { "invalid character", "missing key", "unsupported encoding",
                  "illegal base64 data" } }

RestoreStarted == pc \in {"scan", "done"} /\ dbName # <<>>

LinesWritten == [i \in 1..Len(out) |-> [Key |-> out[i].Key, Secret |-> out[i].Secret]]

RECURSIVE EntriesFrom(_, _)
EntriesFrom(items, withSecret) ==
    IF items = <<>> THEN <<>>
    ELSE LET item == Head(items)
             secret == item.meta % 2 = 1
         IN  (IF secret /\ ~withSecret THEN <<>>
              ELSE << [Key |-> item.key, Secret |-> secret] >>)
                 \o EntriesFrom(Tail(items), withSecret)

\* The entries the iteration is to write: all of them with --secret, the
\* non-secret ones without.
EntriesToDump == EntriesFrom(store, cmd.secret)

IsPrefixOf(s, t) == Len(s) <= Len(t) /\ s = SubSeq(t, 1, Len(s))

Dumping == pc \in {"iterate", "returned", "done"} /\ trans # zeroTransactionArgs

NoSecretLineWithoutFlag == \A i \in 1..Len(out) : out[i].Secret => cmd.secret

\* As stated, for every run of dump that has returned.
C30_DumpsExactlyTheSelectedEntries ==
    (Dumping /\ pc = "done") =>
        /\ NoSecretLineWithoutFlag
        /\ LinesWritten = EntriesToDump

\* Amended: no run writes a secret entry without the flag; a dump that
\* succeeds has written exactly the selected entries in iteration order, the
\* secret ones marked; a dump that fails on an entry (its value cannot be
\* read, or is no UTF-8 under --encoding text) has written the selected
\* entries before it.
C30_SecretsOnlyWithFlag ==
    Dumping =>
        /\ NoSecretLineWithoutFlag
        /\ IsPrefixOf(LinesWritten, EntriesToDump)
        /\ LinesWritten = EntriesFrom(SubSeq(store, 1, cursor - 1), cmd.secret)
        /\ (pc = "done" /\ ret = "nil") => LinesWritten = EntriesToDump
        /\ (pc = "done" /\ ret # "nil" /\ txn.tx # "none") =>
               /\ cursor <= Len(store)
               /\ ~(store[cursor].meta % 2 = 1 /\ ~cmd.secret)

\* A secret entry and a binary one dumped with --secret: two lines, the
\* first marked secret.
C30_Witness ==
    /\ pc = "done" /\ ret = "nil"
    /\ cmd.secret
    /\ Len(store) = 2 /\ store[1].meta % 2 = 1 /\ store[2].meta % 2 = 0
    /\ Len(out) = 2
    /\ out[1].Secret /\ ~out[2].Secret
    /\ out[2].Encoding = "base64"

====
